---- MODULE Spec2Model ----
(***************************************************************************)
(* Generic table gateway of market-pi (src/server.js, second version of    *)
(* the file, lines 187-491): the handlers GET/POST/PATCH/DELETE            *)
(* /api/:table, parseFilter, parseSupabaseSelect and the relational store  *)
(* they talk to through pool.query.                                        *)
(*                                                                         *)
(* Strings the code inspects character by character (querystring keys and  *)
(* values, select expressions, identifiers) are sequences of one-character *)
(* strings.  Table names are only interpolated, never inspected, and are   *)
(* TLA+ strings.                                                           *)
(***************************************************************************)
EXTENDS Integers, Sequences, FiniteSets, TLC

(* ------------------------------------------------------------------ *)
(* Bounds of the model                                                *)
(* ------------------------------------------------------------------ *)
\* Largest number of keys in a querystring.
MaxQuery == 2
\* Largest number of rows of the products table (ids are 1..MaxRows).
MaxRows == 2
\* Largest number of objects in a POST array body.
MaxBatch == 3
\* Largest number of terms of a select expression (parseSupabaseSelect alone).
MaxTerms == 3
MaxProfiles == 2
MaxMoves == 2
MaxCalls == 2
MaxMock == 2

(* ------------------------------------------------------------------ *)
(* Characters and strings                                             *)
(* ------------------------------------------------------------------ *)
Digits == {"0", "1", "2", "3", "4", "5", "6", "7", "8", "9"}
Letters == {"a", "b", "c", "d", "e", "f", "g", "h", "i", "j", "k", "l", "m",
            "n", "o", "p", "q", "r", "s", "t", "u", "v", "w", "x", "y", "z"}
\* \w of a JavaScript regular expression (upper case does not occur in the model).
WordChars == Digits \cup Letters \cup {"_"}
\* What "." of a JavaScript regular expression (no s flag) does not match.
LineTerminators == {"\n", "\r"}
\* \s of a JavaScript regular expression.
WhiteSpace == {" ", "\t", "\n", "\r"}

s_eq == <<"e", "q">>
s_neq == <<"n", "e", "q">>
s_gte == <<"g", "t", "e">>
s_lte == <<"l", "t", "e">>
s_is == <<"i", "s">>
s_not == <<"n", "o", "t">>
s_null == <<"n", "u", "l", "l">>
s_desc == <<"d", "e", "s", "c">>
s_asc == <<"a", "s", "c">>
s_star == <<"*">>
s_select == <<"s", "e", "l", "e", "c", "t">>
s_order == <<"o", "r", "d", "e", "r">>
s_count == <<"c", "o", "u", "n", "t">>
s_exact == <<"e", "x", "a", "c", "t">>
s_id == <<"i", "d">>
s_qr_code == <<"q", "r", "_", "c", "o", "d", "e">>
s_current_stock == <<"c", "u", "r", "r", "e", "n", "t", "_", "s", "t", "o", "c", "k">>
s_bogus == <<"b", "o", "g", "u", "s">>
s_dot == <<".">>

\* v handed to Op as a value: Op(v), with v evaluated once.
Bind(v, Op(_)) == CHOOSE r \in {Op(x) : x \in {v}} : TRUE

\* Position of the first element of s at or after position from that is in
\* set C, 0 when there is none.
FirstFrom(s, from, C) ==
  IF \E i \in from..Len(s) : s[i] \in C
  THEN CHOOSE i \in from..Len(s) : s[i] \in C /\ \A j \in from..(i - 1) : s[j] \notin C
  ELSE 0

FirstIn(s, C) == FirstFrom(s, 1, C)

\* String.prototype.split(sep) for a one-character separator.
RECURSIVE SplitFrom(_, _, _)
SplitFrom(s, from, sep) ==
  Bind(FirstFrom(s, from, {sep}), LAMBDA d :
    IF d = 0 THEN <<SubSeq(s, from, Len(s))>>
    ELSE <<SubSeq(s, from, d - 1)>> \o SplitFrom(s, d + 1, sep))

Split(str, sep) == Bind(str, LAMBDA s : SplitFrom(s, 1, sep))

\* String.prototype.trim().
Trim(str) ==
  Bind(str, LAMBDA s :
    Bind({i \in 1..Len(s) : s[i] \notin WhiteSpace}, LAMBDA N :
      IF N = {} THEN <<>>
      ELSE SubSeq(s, CHOOSE i \in N : \A j \in N : i <= j,
                     CHOOSE i \in N : \A j \in N : i >= j)))

(* ------------------------------------------------------------------ *)
(* parseFilter                                                        *)
(* ------------------------------------------------------------------ *)
\* raw.match(/^(\w+)\.(.*)$/): a non-empty run of word characters from the
\* start, a dot right after it, and then no line terminator up to the end.
FilterMatch(raw) ==
  Bind(FirstIn(raw, {"."}), LAMBDA d :
    /\ d > 1
    /\ \A j \in 1..(d - 1) : raw[j] \in WordChars
    /\ \A j \in (d + 1)..Len(raw) : raw[j] \notin LineTerminators)

parseFilter(str) ==
  Bind(str, LAMBDA raw :
    Bind(FirstIn(raw, {"."}), LAMBDA d :
      IF FilterMatch(raw)
      THEN [op |-> SubSeq(raw, 1, d - 1), value |-> SubSeq(raw, d + 1, Len(raw))]
      ELSE [op |-> s_eq, value |-> raw]))

(* ------------------------------------------------------------------ *)
(* relationships and parseSupabaseSelect                              *)
(* ------------------------------------------------------------------ *)
s_categories == <<"c", "a", "t", "e", "g", "o", "r", "i", "e", "s">>
s_suppliers == <<"s", "u", "p", "p", "l", "i", "e", "r", "s">>
s_products == <<"p", "r", "o", "d", "u", "c", "t", "s">>
s_profiles == <<"p", "r", "o", "f", "i", "l", "e", "s">>
s_category_id == <<"c", "a", "t", "e", "g", "o", "r", "y", "_", "i", "d">>
s_supplier_id == <<"s", "u", "p", "p", "l", "i", "e", "r", "_", "i", "d">>
s_product_id == <<"p", "r", "o", "d", "u", "c", "t", "_", "i", "d">>
s_user_id == <<"u", "s", "e", "r", "_", "i", "d">>
s_users == <<"u", "s", "e", "r", "s">>
s_name == <<"n", "a", "m", "e">>
s_new_stock == <<"n", "e", "w", "_", "s", "t", "o", "c", "k">>
s_username == <<"u", "s", "e", "r", "n", "a", "m", "e">>
s_password_hash == <<"p", "a", "s", "s", "w", "o", "r", "d", "_", "h", "a", "s", "h">>
s_password == <<"p", "a", "s", "s", "w", "o", "r", "d">>
s_access_token == <<"a", "c", "c", "e", "s", "s", "_", "t", "o", "k", "e", "n">>
s_token_ == <<"t", "o", "k", "e", "n", "_">>
s_gt == <<"g", "t">>
s_lt == <<"l", "t">>
s_limit == <<"l", "i", "m", "i", "t">>

\* The static relationship map: the relations declared for a table.
relationships(table) ==
  CASE table = "products" ->
         {[name |-> s_categories, foreignKey |-> s_category_id, targetTable |-> "categories"],
          [name |-> s_suppliers, foreignKey |-> s_supplier_id, targetTable |-> "suppliers"]}
    [] table = "stock_movements" ->
         {[name |-> s_products, foreignKey |-> s_product_id, targetTable |-> "products"],
          [name |-> s_profiles, foreignKey |-> s_user_id, targetTable |-> "profiles"]}
    [] table = "audit_logs" ->
         {[name |-> s_profiles, foreignKey |-> s_user_id, targetTable |-> "profiles"]}
    [] OTHER -> {}

\* End of the longest run of characters of C that starts at position p of s
\* (p - 1 when s[p] is not in C).
RunEnd(s, p, C) ==
  Bind(FirstFrom(s, p, {s[i] : i \in 1..Len(s)} \ C), LAMBDA n :
    IF n = 0 THEN Len(s) ELSE n - 1)

\* selectStr.replace(/\s+/g, ' '), from position i on.
RECURSIVE CollapseSpacesFrom(_, _)
CollapseSpacesFrom(s, i) ==
  IF i > Len(s) THEN <<>>
  ELSE IF s[i] \in WhiteSpace
       THEN Bind(RunEnd(s, i, WhiteSpace), LAMBDA e : <<" ">> \o CollapseSpacesFrom(s, e + 1))
       ELSE <<s[i]>> \o CollapseSpacesFrom(s, i + 1)

CollapseSpaces(str) == Bind(str, LAMBDA s : CollapseSpacesFrom(s, 1))

\* /(\w+)\s*\(([^)]+)\)/ anchored at position p: the position of the closing
\* parenthesis, 0 when the pattern does not match there.
RelationMatchAt(s, p) ==
  Bind(RunEnd(s, p, WordChars), LAMBDA e :
    Bind(RunEnd(s, e + 1, WhiteSpace) + 1, LAMBDA o :
      IF e >= p /\ o <= Len(s) /\ s[o] = "("
      THEN Bind(FirstFrom(s, o + 1, {")"}), LAMBDA c : IF c > o + 1 THEN c ELSE 0)
      ELSE 0))

\* relationRegex.exec(cleaned) from lastIndex: the leftmost match at or after
\* position from, as [start, nameEnd, open, close]; start = 0 when none.
RelationExec(s, from) ==
  Bind({p \in from..Len(s) : RelationMatchAt(s, p) > 0}, LAMBDA M :
    IF M = {} THEN [start |-> 0, nameEnd |-> 0, open |-> 0, close |-> 0]
    ELSE Bind(CHOOSE p \in M : \A r \in M : p <= r, LAMBDA p :
           Bind(RunEnd(s, p, WordChars), LAMBDA e :
             [start |-> p, nameEnd |-> e,
              open |-> RunEnd(s, e + 1, WhiteSpace) + 1, close |-> RelationMatchAt(s, p)])))

\* String.prototype.replace(sub, ''): s without the first occurrence of sub.
RemoveFirst(s, sub) ==
  Bind({i \in 1..(Len(s) - Len(sub) + 1) : SubSeq(s, i, i + Len(sub) - 1) = sub}, LAMBDA At :
    IF At = {} THEN s
    ELSE Bind(CHOOSE i \in At : \A j \in At : i <= j, LAMBDA i :
           SubSeq(s, 1, i - 1) \o SubSeq(s, i + Len(sub), Len(s))))

\* seq.map(c => c.trim())
TrimAll(seq) == [i \in 1..Len(seq) |-> Trim(seq[i])] \o <<>>

\* seq without its empty strings.
DropEmpty(seq) == SelectSeq(seq, LAMBDA x : x # <<>>)

\* The relation request pushed for a match, as a sequence of zero or one
\* requests: the name must be a key of relationships[table].
RelationRequest(table, name, columns) ==
  IF \E r \in relationships(table) : r.name = name
  THEN LET r == CHOOSE r \in relationships(table) : r.name = name
       IN <<[name |-> name, columns |-> columns,
             foreignKey |-> r.foreignKey, targetTable |-> r.targetTable]>>
  ELSE <<>>

\* The while loop over relationRegex.exec(cleaned): acc = [relations, tempStr].
RECURSIVE RelationLoop(_, _, _, _)
RelationLoop(table, cleaned, from, acc) ==
  Bind(RelationExec(cleaned, from), LAMBDA m :
    IF m.start = 0 THEN acc
    ELSE Bind([relations |-> acc.relations \o
                   RelationRequest(table, SubSeq(cleaned, m.start, m.nameEnd),
                     TrimAll(Split(SubSeq(cleaned, m.open + 1, m.close - 1), ","))),
               tempStr |-> RemoveFirst(acc.tempStr, SubSeq(cleaned, m.start, m.close))],
              LAMBDA next : RelationLoop(table, cleaned, m.close + 1, next)))

\* tempStr.replace(/,\s*,/g, ','), from position i on.
RECURSIVE CollapseCommasFrom(_, _)
CollapseCommasFrom(s, i) ==
  IF i > Len(s) THEN <<>>
  ELSE Bind(RunEnd(s, i + 1, WhiteSpace) + 1, LAMBDA n :
         IF s[i] = "," /\ n <= Len(s) /\ s[n] = ","
         THEN <<",">> \o CollapseCommasFrom(s, n + 1)
         ELSE <<s[i]>> \o CollapseCommasFrom(s, i + 1))

CollapseCommas(str) == Bind(str, LAMBDA s : CollapseCommasFrom(s, 1))

\* str.replace(/^,|,$/g, '')
StripCommas(str) ==
  Bind(str, LAMBDA s :
    Bind(IF s # <<>> /\ s[1] = "," THEN Tail(s) ELSE s, LAMBDA a :
      IF a # <<>> /\ a[Len(a)] = "," THEN SubSeq(a, 1, Len(a) - 1) ELSE a))

parseSupabaseSelect(selectStr, table) ==
  Bind(Trim(CollapseSpaces(selectStr)), LAMBDA cleaned :
    Bind(RelationLoop(table, cleaned, 1, [relations |-> <<>>, tempStr |-> cleaned]), LAMBDA loop :
      Bind(Trim(StripCommas(CollapseCommas(loop.tempStr))), LAMBDA mainColsStr :
        [mainColumns |-> IF mainColsStr = <<>> THEN <<>>
                         ELSE DropEmpty(TrimAll(Split(mainColsStr, ","))),
         relations |-> loop.relations])))

(* ------------------------------------------------------------------ *)
(* Values and the relational store behind pool.query                  *)
(* ------------------------------------------------------------------ *)
\* A value bound to a placeholder or stored in a cell: a JSON number, a
\* string (querystring values are always strings) or null.
IntV(n) == [t |-> "int", n |-> n, s |-> <<>>]
StrV(str) == [t |-> "str", n |-> 0, s |-> str]
NullV == [t |-> "null", n |-> 0, s |-> <<>>]
\* The object json_build_object gives, as the driver parses it: a function
\* from its keys to its values.
JsonV(obj) == [t |-> "json", n |-> 0, s |-> obj]

DigitVal(c) ==
  CASE c = "0" -> 0 [] c = "1" -> 1 [] c = "2" -> 2 [] c = "3" -> 3 [] c = "4" -> 4
    [] c = "5" -> 5 [] c = "6" -> 6 [] c = "7" -> 7 [] c = "8" -> 8 [] OTHER -> 9

\* The number a string of digits denotes (its first n digits).
RECURSIVE ToIntUpTo(_, _)
ToIntUpTo(str, n) ==
  IF n = 0 THEN 0 ELSE 10 * ToIntUpTo(str, n - 1) + DigitVal(str[n])

ToInt(str) == ToIntUpTo(str, Len(str))

\* Whether the store can convert a bound value to the type of an integer
\* (or identifier) column: the translator itself performs no coercion.
Castable(v) ==
  \/ v.t \in {"int", "null"}
  \/ v.t = "str" /\ v.s # <<>> /\ \A i \in 1..Len(v.s) : v.s[i] \in Digits

Cast(v) == IF v.t = "str" THEN IntV(ToInt(v.s)) ELSE v

\* The tables of the store that the model keeps rows of, with the columns
\* kept of each.  Text cells (qr_code, name, username, password_hash) are
\* stood for by numbers: only their being equal or not matters.
StoreTables == {"products", "categories", "stock_movements", "profiles"}
ProductCols == {s_id, s_qr_code, s_current_stock, s_category_id}
CategoryCols == {s_id, s_name}
MovementCols == {s_id, s_product_id, s_new_stock}
ProfileCols == {s_id, s_username, s_password_hash}
TableCols(table) ==
  CASE table = "products" -> ProductCols
    [] table = "categories" -> CategoryCols
    [] table = "stock_movements" -> MovementCols
    [] table = "profiles" -> ProfileCols
    [] OTHER -> {}
UniqueCols(table) ==
  CASE table = "products" -> {s_id, s_qr_code}
    [] table = "categories" -> {s_id, s_name}
    [] table \in {"stock_movements", "profiles"} -> {s_id}
    [] OTHER -> {}
\* The columns without NOT NULL.
NullableCols(table) == IF table = "products" THEN {s_category_id} ELSE {}
\* REFERENCES target(id) ON DELETE ...
ForeignKeys(table) ==
  CASE table = "products" ->
         {[col |-> s_category_id, targetTable |-> "categories", onDelete |-> "SET NULL"]}
    [] table = "stock_movements" ->
         {[col |-> s_product_id, targetTable |-> "products", onDelete |-> "CASCADE"]}
    [] OTHER -> {}

\* A condition of a WHERE clause: <tbl.>col op $ph.
Holds(row, cond, params) ==
  Bind(Cast(params[cond.ph]), LAMBDA v :
    /\ row[cond.col].t = "int" /\ v.t = "int"
    /\ CASE cond.op = "=" -> row[cond.col].n = v.n
         [] cond.op = "!=" -> row[cond.col].n # v.n
         [] cond.op = "<=" -> row[cond.col].n <= v.n
         [] OTHER -> row[cond.col].n >= v.n)

Matching(rows, stmt) ==
  {r \in rows : \A i \in 1..Len(stmt.where) : Holds(r, stmt.where[i], stmt.params)}

\* The conditions name columns of the table and bind convertible values.
WhereValid(stmt) ==
  \A i \in 1..Len(stmt.where) :
     /\ stmt.where[i].col \in TableCols(stmt.table)
     /\ stmt.where[i].ph \in 1..Len(stmt.params)
     /\ Castable(stmt.params[stmt.where[i].ph])

\* NOT NULL and UNIQUE over the rows of a table.
ConstraintsHold(table, rows) ==
  /\ \A r \in rows : \A c \in TableCols(table) :
        r[c].t = "int" \/ (r[c].t = "null" /\ c \in NullableCols(table))
  /\ \A r1, r2 \in rows : \A c \in UniqueCols(table) : r1[c] = r2[c] => r1 = r2

\* Every foreign key of the rows of a table is NULL or the id of a row of
\* its target, in store d.
ReferencesHold(table, rows, d) ==
  \A fk \in ForeignKeys(table) : \A r \in rows :
     r[fk.col].t = "null" \/ \E t \in d[fk.targetTable] : t[s_id] = r[fk.col]

Failed(d, err) == [ok |-> FALSE, err |-> err, rows |-> {}, db |-> d]
Done(d, rows) == [ok |-> TRUE, err |-> "", rows |-> rows, db |-> d]

\* The identifier gen_random_uuid() gives a new row: one no row has yet.
FreshId(rows) ==
  CHOOSE n \in 1..(Cardinality(rows) + 1) :
     /\ \A r \in rows : r[s_id] # IntV(n)
     /\ \A k \in 1..(n - 1) : \E r \in rows : r[s_id] = IntV(k)

\* A function as an explicit set of <<argument, value>> pairs turned back
\* into a function: the row a statement writes, every cell computed once.
RowOf(cols, Cell(_)) ==
  Bind({<<c, Cell(c)>> : c \in cols}, LAMBDA P :
    [c \in cols |-> (CHOOSE pr \in P : pr[1] = c)[2]])

\* The k-th json_build_object(...) as name of a SELECT: the projections
\* pushed after the main columns, one per join.
JsonProj(stmt, k) == stmt.proj[Len(stmt.proj) - Len(stmt.joins) + k]

\* json_build_object('c1', target.c1, ...) over a row of the target, or
\* over the all-NULL row of an outer join.
json_build_object(columns, t) ==
  JsonV([c \in {columns[i] : i \in 1..Len(columns)} |-> t[c]])

\* The rows with no join partner are dropped.
InnerJoin(rows, name, columns, foreignKey, target) ==
  UNION {{[c \in DOMAIN r \cup {name} |->
             IF c = name THEN json_build_object(columns, t) ELSE r[c]]
          : t \in {u \in target : u[s_id] = r[foreignKey]}} : r \in rows}

\* LEFT JOIN target ON table.foreignKey = target.id, with the projection
\* json_build_object(...) as name added to each row.
LeftJoin(rows, name, columns, foreignKey, target) ==
  UNION {Bind({u \in target : u[s_id] = r[foreignKey]}, LAMBDA T :
           {[c \in DOMAIN r \cup {name} |->
               IF c = name THEN json_build_object(columns, t) ELSE r[c]]
            : t \in IF T = {} THEN {[c \in {columns[i] : i \in 1..Len(columns)} |-> NullV]}
                    ELSE T}) : r \in rows}

\* The joins of a SELECT applied one after the other, from the k-th on.
RECURSIVE JoinFrom(_, _, _, _)
JoinFrom(stmt, d, k, rows) ==
  IF k > Len(stmt.joins) THEN rows
  ELSE JoinFrom(stmt, d, k + 1,
         LeftJoin(rows, JsonProj(stmt, k).col, JsonProj(stmt, k).columns,
                  stmt.joins[k].foreignKey, d[stmt.joins[k].targetTable]))

ExecSelect(stmt, d) ==
  IF stmt.table \notin DOMAIN d THEN Failed(d, "undefined_table")
  ELSE IF \E i \in 1..Len(stmt.joins) : stmt.joins[i].targetTable \notin DOMAIN d
       THEN Failed(d, "undefined_table")
  ELSE IF \E i, j \in 1..Len(stmt.joins) :
             i # j /\ stmt.joins[i].targetTable = stmt.joins[j].targetTable
       THEN Failed(d, "duplicate_alias")
  ELSE IF \E i \in 1..Len(stmt.proj) :
             stmt.proj[i].kind = "col" /\ stmt.proj[i].col \notin TableCols(stmt.table)
       THEN Failed(d, "undefined_column")
  ELSE IF \E k \in 1..Len(stmt.joins) :
             \/ stmt.joins[k].foreignKey \notin TableCols(stmt.table)
             \/ \E i \in 1..Len(JsonProj(stmt, k).columns) :
                   JsonProj(stmt, k).columns[i] \notin TableCols(stmt.joins[k].targetTable)
       THEN Failed(d, "undefined_column")
  ELSE IF stmt.order.present /\ stmt.order.col \notin TableCols(stmt.table)
       THEN Failed(d, "undefined_column")
  ELSE IF ~WhereValid(stmt) THEN Failed(d, "invalid_condition")
  ELSE Done(d, JoinFrom(stmt, d, 1, Matching(d[stmt.table], stmt)))

\* The value an INSERT gives column c: the one supplied, or the default.
InsertCell(stmt, rows, c) ==
  IF \E i \in 1..Len(stmt.cols) : stmt.cols[i] = c
  THEN Cast(stmt.params[CHOOSE i \in 1..Len(stmt.cols) : stmt.cols[i] = c])
  ELSE IF c = s_id THEN IntV(FreshId(rows))
  ELSE IF c = s_current_stock THEN IntV(0)
  ELSE NullV

\* A store without the trigger.
NoTrigger(table, new, d) == d

\* trigger_update_product_stock AFTER INSERT ON stock_movements FOR EACH ROW:
\* UPDATE products SET current_stock = NEW.new_stock WHERE id = NEW.product_id
update_product_stock(table, new, d) ==
  IF table # "stock_movements" THEN d
  ELSE [d EXCEPT !["products"] =
          {IF r[s_id] = new[s_product_id]
           THEN [r EXCEPT ![s_current_stock] = new[s_new_stock]] ELSE r : r \in @}]

ExecInsert(stmt, d) ==
  IF stmt.table \notin DOMAIN d THEN Failed(d, "undefined_table")
  ELSE IF stmt.cols = <<>> THEN Failed(d, "syntax_error")
  ELSE IF \E i \in 1..Len(stmt.cols) : stmt.cols[i] \notin TableCols(stmt.table)
       THEN Failed(d, "undefined_column")
  ELSE IF \E i \in 1..Len(stmt.params) : ~Castable(stmt.params[i])
       THEN Failed(d, "invalid_text_representation")
  ELSE Bind(RowOf(TableCols(stmt.table), LAMBDA c : InsertCell(stmt, d[stmt.table], c)),
         LAMBDA new :
           IF ~(ConstraintsHold(stmt.table, d[stmt.table] \cup {new}) /\ new \notin d[stmt.table])
           THEN Failed(d, "constraint_violation")
           ELSE IF ~ReferencesHold(stmt.table, {new}, d)
           THEN Failed(d, "foreign_key_violation")
           ELSE Done(update_product_stock(stmt.table, new,
                       [d EXCEPT ![stmt.table] = @ \cup {new}]), {new}))

\* The value an UPDATE gives column c of row r.
UpdateCell(stmt, r, c) ==
  IF \E i \in 1..Len(stmt.set) : stmt.set[i].col = c
  THEN Cast(stmt.params[(stmt.set[CHOOSE i \in 1..Len(stmt.set) : stmt.set[i].col = c]).ph])
  ELSE r[c]

ExecUpdate(stmt, d) ==
  IF stmt.table \notin DOMAIN d THEN Failed(d, "undefined_table")
  ELSE IF stmt.set = <<>> \/ stmt.where = <<>> THEN Failed(d, "syntax_error")
  ELSE IF \E i \in 1..Len(stmt.set) : stmt.set[i].col \notin TableCols(stmt.table)
       THEN Failed(d, "undefined_column")
  ELSE IF \E i \in 1..Len(stmt.set) : ~Castable(stmt.params[stmt.set[i].ph])
       THEN Failed(d, "invalid_text_representation")
  ELSE IF ~WhereValid(stmt) THEN Failed(d, "invalid_condition")
  ELSE Bind(Matching(d[stmt.table], stmt), LAMBDA hit :
         Bind({RowOf(TableCols(stmt.table), LAMBDA c : UpdateCell(stmt, r, c)) : r \in hit},
           LAMBDA new :
             Bind((d[stmt.table] \ hit) \cup new, LAMBDA after :
               IF ~(/\ ConstraintsHold(stmt.table, after)
                    /\ Cardinality(after) = Cardinality(d[stmt.table]))
               THEN Failed(d, "constraint_violation")
               ELSE Bind([d EXCEPT ![stmt.table] = after], LAMBDA e :
                      IF \A t \in DOMAIN e : ReferencesHold(t, e[t], e)
                      THEN Done(e, new)
                      ELSE Failed(d, "foreign_key_violation")))))

\* What ON DELETE does to the rows of table t that reference rows gone
\* from another table: CASCADE removes them, SET NULL clears the key.
OnDelete(t, rows, table, gone) ==
  Bind({r[s_id] : r \in gone}, LAMBDA ids :
    IF \A fk \in ForeignKeys(t) : fk.targetTable # table THEN rows
    ELSE Bind(CHOOSE fk \in ForeignKeys(t) : fk.targetTable = table, LAMBDA fk :
           IF fk.onDelete = "CASCADE" THEN {r \in rows : r[fk.col] \notin ids}
           ELSE {IF r[fk.col] \in ids THEN [r EXCEPT ![fk.col] = NullV] ELSE r : r \in rows}))

ExecDelete(stmt, d) ==
  IF stmt.table \notin DOMAIN d THEN Failed(d, "undefined_table")
  ELSE IF stmt.where = <<>> THEN Failed(d, "syntax_error")
  ELSE IF ~WhereValid(stmt) THEN Failed(d, "invalid_condition")
  ELSE Bind(Matching(d[stmt.table], stmt), LAMBDA hit :
         Done([t \in DOMAIN d |->
                 IF t = stmt.table THEN d[t] \ hit
                 ELSE OnDelete(t, d[t], stmt.table, hit)], hit))

\* pool.query(q, params)
Exec(statement, store) ==
  Bind(statement, LAMBDA stmt :
    Bind(store, LAMBDA d :
      CASE stmt.kind = "SELECT" -> ExecSelect(stmt, d)
        [] stmt.kind = "INSERT" -> ExecInsert(stmt, d)
        [] stmt.kind = "UPDATE" -> ExecUpdate(stmt, d)
        [] OTHER -> ExecDelete(stmt, d)))

(* ------------------------------------------------------------------ *)
(* Statements and responses                                           *)
(* ------------------------------------------------------------------ *)
NoOrder == [present |-> FALSE, col |-> <<>>, dir |-> "ASC"]

\* A statement as the handlers build it: the kind and the table name that
\* start its text, the projections and joins (SELECT), the column list
\* (INSERT), the assignments (UPDATE), the conditions joined by AND, the
\* ORDER BY clause, and the parameter list handed over with the text.
Stmt(kind, table) ==
  [kind |-> kind, table |-> table, proj |-> <<>>, joins |-> <<>>, cols |-> <<>>,
   set |-> <<>>, where |-> <<>>, order |-> NoOrder, params |-> <<>>]

\* res.json(rows), res.json(row), res.status(code).json({error})
RowsResponse(rows) == [status |-> 200, kind |-> "rows", rows |-> rows, error |-> ""]
RowResponse(row) == [status |-> 200, kind |-> "row", rows |-> <<row>>, error |-> ""]
ErrorResponse(code, msg) == [status |-> code, kind |-> "error", rows |-> <<>>, error |-> msg]

\* The orders in which the store may return a set of rows: any order, or,
\* under ORDER BY, any order sorted on the column.
Sorted(f, n, order) ==
  \A i, j \in 1..n :
    i < j => IF order.dir = "DESC" THEN f[i][order.col].n >= f[j][order.col].n
             ELSE f[i][order.col].n <= f[j][order.col].n

Orderings(rows, order) ==
  {f \o <<>> : f \in {g \in [1..Cardinality(rows) -> rows] :
                        /\ \A i, j \in 1..Cardinality(rows) : i # j => g[i] # g[j]
                        /\ order.present => Sorted(g, Cardinality(rows), order)}}

\* The columns a SELECT returns of the table itself.
Projected(stmt) ==
  UNION {IF stmt.proj[i].kind = "star" THEN TableCols(stmt.table)
         ELSE {stmt.proj[i].col} : i \in 1..Len(stmt.proj)}

Project(row, cols) == RowOf(cols, LAMBDA c : row[c])

\* The outcome of a handler: its response, the statements it handed to
\* pool.query, its parseFilter calls, and the store it leaves.
Outcome(response, statements, calls, d) ==
  [resp |-> response, sent |-> statements, parsed |-> calls, db |-> d]

(* ------------------------------------------------------------------ *)
(* GET /api/:table                                                    *)
(* ------------------------------------------------------------------ *)
\* An if/else chain whose eq branch pushes nothing.
GetSqlOpNoEq(op) ==
  CASE op = s_neq -> "!="
    [] op = s_lte -> "<="
    [] op = s_gte -> ">="
    [] OTHER -> ""

\* The branch of the GET handler's if/else chain taken for an operator:
\* the SQL comparison it pushes, "" when no branch is taken.
GetSqlOp(op) ==
  CASE op = s_eq -> "="
    [] op = s_neq -> "!="
    [] op = s_lte -> "<="
    [] op = s_gte -> ">="
    [] OTHER -> ""

\* req.query.select || '*'
SelectRaw(query) ==
  IF \E i \in 1..Len(query) : query[i].key = s_select /\ query[i].val # <<>>
  THEN query[CHOOSE i \in 1..Len(query) : query[i].key = s_select].val
  ELSE s_star

\* The keys the GET loop passes over: if (key === 'select' || key === 'count') continue
GetSkips(key) == key = s_select \/ key = s_count

\* An order branch that ignores the direction.
OrderClauseAsc(val) ==
  Bind(Split(val, "."), LAMBDA orderParts :
    [present |-> TRUE, col |-> orderParts[1], dir |-> "ASC"])

\* The order branch of the GET loop.
OrderClause(val) ==
  Bind(Split(val, "."), LAMBDA orderParts :
    [present |-> TRUE, col |-> orderParts[1],
     dir |-> IF Len(orderParts) >= 2 /\ orderParts[2] = s_desc THEN "DESC" ELSE "ASC"])

\* A filter push that numbers its placeholder from the parameters already
\* bound, without counting its own.
PushFilterOffByOne(acc, tbl, key, val, f, sqlop) ==
  IF sqlop = ""
  THEN [acc EXCEPT !.parsed = Append(@, [raw |-> val, op |-> f.op, value |-> f.value])]
  ELSE [acc EXCEPT !.parsed = Append(@, [raw |-> val, op |-> f.op, value |-> f.value]),
                   !.where = Append(@, [tbl |-> tbl, col |-> key, op |-> sqlop,
                                        ph |-> Len(acc.params)]),
                   !.params = Append(@, StrV(f.value))]

\* One filter key of a loop over the querystring: the parseFilter call is
\* recorded and, when the operator has a branch (sqlop # ""), a condition
\* and its parameter are pushed.  acc = [where, params, order, parsed].
PushFilter(acc, tbl, key, val, f, sqlop) ==
  IF sqlop = ""
  THEN [acc EXCEPT !.parsed = Append(@, [raw |-> val, op |-> f.op, value |-> f.value])]
  ELSE [acc EXCEPT !.parsed = Append(@, [raw |-> val, op |-> f.op, value |-> f.value]),
                   !.where = Append(@, [tbl |-> tbl, col |-> key, op |-> sqlop,
                                        ph |-> Len(acc.params) + 1]),
                   !.params = Append(@, StrV(f.value))]

\* One turn of the for loop over Object.keys(req.query) of the GET handler.
GetStep(table, entry, acc) ==
  IF GetSkips(entry.key) THEN acc
  ELSE IF entry.key = s_order THEN [acc EXCEPT !.order = OrderClause(entry.val)]
  ELSE Bind(parseFilter(entry.val), LAMBDA f :
         PushFilter(acc, table, entry.key, entry.val, f, GetSqlOp(f.op)))

RECURSIVE GetLoop(_, _, _, _)
GetLoop(table, query, i, acc) ==
  IF i > Len(query) THEN acc
  ELSE Bind(GetStep(table, query[i], acc), LAMBDA next : GetLoop(table, query, i + 1, next))

EmptyAcc == [where |-> <<>>, params |-> <<>>, order |-> NoOrder, parsed |-> <<>>]

\* The SELECT list and the joins: the main columns, then one
\* json_build_object and one LEFT JOIN per relation.
Projections(table, sel) ==
  (IF Len(sel.mainColumns) > 0
   THEN [i \in 1..Len(sel.mainColumns) |->
           IF sel.mainColumns[i] = s_star
           THEN [kind |-> "star", col |-> <<>>, columns |-> <<>>, targetTable |-> table]
           ELSE [kind |-> "col", col |-> sel.mainColumns[i], columns |-> <<>>,
                 targetTable |-> table]]
   ELSE <<[kind |-> "star", col |-> <<>>, columns |-> <<>>, targetTable |-> table]>>)
  \o [i \in 1..Len(sel.relations) |->
        [kind |-> "json", col |-> sel.relations[i].name,
         columns |-> sel.relations[i].columns,
         targetTable |-> sel.relations[i].targetTable]]

Joins(sel) ==
  [i \in 1..Len(sel.relations) |->
     [targetTable |-> sel.relations[i].targetTable,
      foreignKey |-> sel.relations[i].foreignKey]] \o <<>>

\* The statement q and the parameter list of the GET handler, with the
\* parseFilter calls made on the way.
GetStmt(table, query) ==
  Bind(parseSupabaseSelect(SelectRaw(query), table), LAMBDA sel :
    Bind(GetLoop(table, query, 1, EmptyAcc), LAMBDA acc :
      [stmt |-> [Stmt("SELECT", table) EXCEPT !.proj = Projections(table, sel),
                                              !.joins = Joins(sel),
                                              !.where = acc.where, !.order = acc.order,
                                              !.params = acc.params],
       parsed |-> acc.parsed]))

\* What the GET handler can do in a store state d.
GetOutcomes(table, query, d) ==
  Bind(GetStmt(table, query), LAMBDA g :
    Bind(Exec(g.stmt, d), LAMBDA r :
      IF r.ok
      THEN {Outcome(RowsResponse([i \in 1..Len(o) |-> Project(o[i], Projected(g.stmt))] \o <<>>),
                    <<[stmt |-> g.stmt, ok |-> TRUE]>>, g.parsed, r.db)
            : o \in Orderings(r.rows, g.stmt.order)}
      ELSE {Outcome(ErrorResponse(500, r.err), <<[stmt |-> g.stmt, ok |-> FALSE]>>,
                    g.parsed, r.db)}))

(* ------------------------------------------------------------------ *)
(* POST /api/:table                                                   *)
(* ------------------------------------------------------------------ *)
\* An object of a JSON body is the sequence of its [col, val] entries, in
\* the order of Object.keys.
PostStmt(table, row) ==
  [Stmt("INSERT", table) EXCEPT !.cols = [i \in 1..Len(row) |-> row[i].col] \o <<>>,
                                !.params = [i \in 1..Len(row) |-> row[i].val] \o <<>>]

\* res.json(inserted.length === 1 ? inserted[0] : inserted)
PostReply(inserted) ==
  IF Len(inserted) = 1 THEN RowResponse(inserted[1]) ELSE RowsResponse(inserted)

\* A catch block that undoes the inserts of the request (a transaction).
PostFailureRollback(d0, d, err, statements) ==
  Outcome(ErrorResponse(500, err), statements, <<>>, d0)

\* The catch block of the POST handler, entered when an insert fails in
\* store state d (d0 is the state the request started in): nothing is undone.
PostFailure(d0, d, err, statements) ==
  Outcome(ErrorResponse(500, err), statements, <<>>, d)

\* for (const row of rows) { ... await pool.query(q, vals) ... }:
\* acc = [db, inserted, sent], i the object the loop is at.
RECURSIVE PostLoop(_, _, _, _, _)
PostLoop(table, rows, i, d0, acc) ==
  IF i > Len(rows) THEN Outcome(PostReply(acc.inserted), acc.sent, <<>>, acc.db)
  ELSE Bind(PostStmt(table, rows[i]), LAMBDA stmt :
         Bind(Exec(stmt, acc.db), LAMBDA r :
           IF r.ok
           THEN Bind([db |-> r.db,
                      inserted |-> Append(acc.inserted, CHOOSE x \in r.rows : TRUE),
                      sent |-> Append(acc.sent, [stmt |-> stmt, ok |-> TRUE])],
                     LAMBDA next : PostLoop(table, rows, i + 1, d0, next))
           ELSE PostFailure(d0, acc.db, r.err,
                            Append(acc.sent, [stmt |-> stmt, ok |-> FALSE]))))

\* const rows = Array.isArray(body) ? body : [body]
PostOutcomes(table, body, d) ==
  {PostLoop(table, body.items, 1, d, [db |-> d, inserted |-> <<>>, sent |-> <<>>])}

(* ------------------------------------------------------------------ *)
(* PATCH and DELETE /api/:table                                       *)
(* ------------------------------------------------------------------ *)
\* Object.keys(req.query).filter(k => k !== 'select'), as the entries kept.
FilterKeys(query) == SelectSeq(query, LAMBDA e : e.key # s_select)

\* The branch of the PATCH and DELETE handlers' if taken for an operator:
\* if (op === 'eq') and nothing else.
EqSqlOp(op) == IF op = s_eq THEN "=" ELSE ""

\* for (const key of filterKeys) { const { op, value } = parseFilter(...); ... }
RECURSIVE EqLoop(_, _, _)
EqLoop(filterKeys, i, acc) ==
  IF i > Len(filterKeys) THEN acc
  ELSE Bind(parseFilter(filterKeys[i].val), LAMBDA f :
         Bind(PushFilter(acc, "", filterKeys[i].key, filterKeys[i].val, f, EqSqlOp(f.op)),
              LAMBDA next : EqLoop(filterKeys, i + 1, next)))

\* An answer that takes a statement that applied to no row for a failure.
AnswerNotFound(stmt, calls, d) ==
  Bind(Exec(stmt, d), LAMBDA r :
    IF r.ok /\ r.rows # {}
    THEN {Outcome(RowsResponse(o), <<[stmt |-> stmt, ok |-> TRUE]>>, calls, r.db)
          : o \in Orderings(r.rows, NoOrder)}
    ELSE {Outcome(ErrorResponse(500, r.err), <<[stmt |-> stmt, ok |-> FALSE]>>, calls, r.db)})

\* What a handler that sent one statement answers: its rows, or a 500.
Answer(stmt, calls, d) ==
  Bind(Exec(stmt, d), LAMBDA r :
    IF r.ok
    THEN {Outcome(RowsResponse(o), <<[stmt |-> stmt, ok |-> TRUE]>>, calls, r.db)
          : o \in Orderings(r.rows, NoOrder)}
    ELSE {Outcome(ErrorResponse(500, r.err), <<[stmt |-> stmt, ok |-> FALSE]>>, calls, r.db)})

\* return res.status(400).json({ error: msg })
Rejected(msg, d) == {Outcome(ErrorResponse(400, msg), <<>>, <<>>, d)}

\* The UPDATE of the PATCH handler: the body values first, then the filters.
PatchStmt(table, filterKeys, body) ==
  Bind(EqLoop(filterKeys, 1,
         [EmptyAcc EXCEPT !.params = [i \in 1..Len(body) |-> body[i].val] \o <<>>]),
       LAMBDA acc :
         [stmt |-> [Stmt("UPDATE", table) EXCEPT
                      !.set = [i \in 1..Len(body) |-> [col |-> body[i].col, ph |-> i]] \o <<>>,
                      !.where = acc.where, !.params = acc.params],
          parsed |-> acc.parsed])

\* body is the object req.body || {}.
PatchOutcomes(table, query, body, d) ==
  Bind(FilterKeys(query), LAMBDA filterKeys :
    IF Len(filterKeys) = 0 THEN Rejected("Missing filter for update", d)
    ELSE IF Len(body) = 0 THEN Rejected("Missing body for update", d)
    ELSE Bind(PatchStmt(table, filterKeys, body), LAMBDA u : Answer(u.stmt, u.parsed, d)))

DeleteStmt(table, filterKeys) ==
  Bind(EqLoop(filterKeys, 1, EmptyAcc), LAMBDA acc :
    [stmt |-> [Stmt("DELETE", table) EXCEPT !.where = acc.where, !.params = acc.params],
     parsed |-> acc.parsed])

DeleteOutcomes(table, query, d) ==
  Bind(FilterKeys(query), LAMBDA filterKeys :
    IF Len(filterKeys) = 0 THEN Rejected("Missing filter for delete", d)
    ELSE Bind(DeleteStmt(table, filterKeys), LAMBDA u : Answer(u.stmt, u.parsed, d)))

(* ------------------------------------------------------------------ *)
(* State and requests                                                 *)
(* ------------------------------------------------------------------ *)
VARIABLES
  db,      \* the store: table name -> set of rows (column -> value)
  db0,     \* the store as it was when the request served last was taken up
  req,     \* the request served last
  resp,    \* the response it got
  sent,    \* the statements it handed to pool.query, each with its outcome
  parsed,  \* its parseFilter calls: [raw, op, value]
  posted,  \* the object and the row of the last POST, while nothing was written since
  moved,   \* per product id: the new_stock of the last movement inserted for it, and
           \* whether the product row was updated since
  call,    \* the last parseSupabaseSelect call: [terms, table, selectStr, result]
  client,  \* the client's query in hand: its builder, and its result once settled
  localStorage,  \* the browser's localStorage: key -> value, of the keys present
  forms,   \* the movement forms open: what each loaded and what it is doing
  mockData \* the tables of the in-memory backend: table name -> sequence of rows

served == <<db, db0, req, resp, sent, parsed>>
front == <<client, localStorage, forms, mockData>>
hist == <<posted, moved, call, client, localStorage, forms, mockData>>
vars ==
  <<db, db0, req, resp, sent, parsed, posted, moved, call,
    client, localStorage, forms, mockData>>

\* "op.literal"
WithOp(op, lit) == op \o s_dot \o lit

\* Querystring values of filter keys.
FilterValues ==
  {<<"1">>,
   WithOp(s_eq, <<"1">>), WithOp(s_neq, <<"1">>), WithOp(s_gte, <<"1">>),
   WithOp(s_lte, <<"1">>), WithOp(s_is, s_null), WithOp(s_not, WithOp(s_is, s_null)),
   <<"9", ".", "9", "9">>,
   WithOp(s_eq, <<"1", "\n", "1">>)}

\* The key=value pairs a querystring is made of.
Entries ==
  {[key |-> s_current_stock, val |-> v] : v \in FilterValues}
  \cup {[key |-> s_id, val |-> WithOp(s_eq, <<"1">>)]}
  \cup {[key |-> s_bogus, val |-> WithOp(s_eq, <<"1">>)]}
  \cup {[key |-> s_select, val |-> v] : v \in {s_id, s_bogus}}
  \cup {[key |-> s_order, val |-> v]
          : v \in {WithOp(s_id, s_desc), WithOp(s_id, s_asc), s_id, s_current_stock}}
  \cup {[key |-> s_count, val |-> s_exact]}

\* req.query: at most MaxQuery entries, no key twice, in the order of the URL.
Queries ==
  UNION {{q \in [1..n -> Entries] : \A i, j \in 1..n : i # j => q[i].key # q[j].key}
         : n \in 0..MaxQuery}

\* The {table} path segments: a table of the store and a name that is
\* neither on the allow-list nor a table of the store.
Tables == {"products", "drop_table_students"}

\* Objects of JSON bodies.
Obj1(c, v) == <<[col |-> c, val |-> v]>>
PatchBodies == {<<>>, Obj1(s_current_stock, IntV(1)), Obj1(s_bogus, IntV(1))}
PostObjects ==
  {Obj1(s_qr_code, IntV(q)) : q \in 1..MaxRows}
  \cup {Obj1(s_qr_code, IntV(1)) \o Obj1(s_current_stock, IntV(1)),
        Obj1(s_current_stock, IntV(1)), Obj1(s_bogus, IntV(1)), <<>>}
\* A POST body: one object, or an array of at most MaxBatch objects.
PostBodies ==
  {[isArray |-> FALSE, items |-> <<o>>] : o \in PostObjects}
  \cup UNION {{[isArray |-> TRUE, items |-> a] : a \in [1..n -> PostObjects]}
              : n \in 0..MaxBatch}

NoBody == [isArray |-> FALSE, items |-> <<>>]

\* No request is being served.
NoRequest == [method |-> "NONE", table |-> "", query |-> <<>>, body |-> NoBody]
NoResponse == [status |-> 0, kind |-> "none", rows |-> <<>>, error |-> ""]

NoPost == [object |-> <<>>, row |-> <<>>, table |-> ""]
NoMove == [p \in 1..MaxRows |-> [new_stock |-> NullV, touched |-> FALSE]]
\* The values of data and error of a result: null, an array of rows, one
\* row, or the object {error: message}; null or an Error with a message.
JsonNull == [kind |-> "null", rows |-> <<>>, error |-> ""]
NoError == [null |-> TRUE, message |-> ""]
NoResult == [settled |-> FALSE, data |-> JsonNull, error |-> NoError]
NoClient ==
  [kind |-> "none", table |-> "", params |-> <<>>, isSingle |-> FALSE, values |-> <<>>,
   chain |-> <<>>, fetches |-> 0, result |-> NoResult]
NoStorage == [k \in {} |-> <<>>]
FormIds == {1, 2}
NoSubmit ==
  [outcome |-> "none", type |-> "", quantity |-> 0, selected |-> FALSE, loaded |-> 0,
   previous_stock |-> 0, new_stock |-> 0, before |-> 0, wrote |-> FALSE]
\* The movement forms that are open (the products each has loaded and the
\* one selected in it), with what is remembered of their submissions: per
\* product the sum of the entradas less the saidas inserted, whether only
\* such movements were inserted, and the last submission.
NoForms ==
  [open |-> [f \in FormIds |-> [products |-> <<>>, selectedProduct |-> <<>>]],
   net |-> [p \in 1..MaxRows |-> [sum |-> 0, plain |-> TRUE]],
   last |-> NoSubmit]
NoMock == [t \in {"products"} |-> <<>>]
NoCall ==
  [terms |-> <<>>, table |-> "", selectStr |-> <<>>,
   result |-> [mainColumns |-> <<>>, relations |-> <<>>]]

Init ==
  /\ db = [t \in StoreTables |-> {}]
  /\ db0 = db
  /\ req = NoRequest
  /\ resp = NoResponse
  /\ sent = <<>>
  /\ parsed = <<>>
  /\ posted = NoPost
  /\ moved = NoMove
  /\ call = NoCall
  /\ client = NoClient
  /\ localStorage = NoStorage
  /\ forms = NoForms
  /\ mockData = NoMock

\* No request is being served: the next one can be taken up.
Idle == req = NoRequest

\* The handler ran to its response.
Served(r, o) ==
  /\ db0' = db
  /\ req' = r
  /\ resp' = o.resp
  /\ sent' = o.sent
  /\ parsed' = o.parsed
  /\ db' = o.db

\* The handlers, serving a request drawn from the given sets.
GetOn(tables, queries) ==
  /\ Idle
  /\ \E table \in tables, query \in queries :
       \E o \in GetOutcomes(table, query, db) :
         Served([method |-> "GET", table |-> table, query |-> query, body |-> NoBody], o)

PostOn(tables, bodies) ==
  /\ Idle
  /\ \E table \in tables, body \in bodies :
       \E o \in PostOutcomes(table, body, db) :
         Served([method |-> "POST", table |-> table, query |-> <<>>, body |-> body], o)

PatchOn(tables, queries, bodies) ==
  /\ Idle
  /\ \E table \in tables, query \in queries, body \in bodies :
       \E o \in PatchOutcomes(table, query, body, db) :
         Served([method |-> "PATCH", table |-> table, query |-> query,
                 body |-> [isArray |-> FALSE, items |-> <<body>>]], o)

DeleteOn(tables, queries) ==
  /\ Idle
  /\ \E table \in tables, query \in queries :
       \E o \in DeleteOutcomes(table, query, db) :
         Served([method |-> "DELETE", table |-> table, query |-> query, body |-> NoBody], o)

\* The response is written and the handler returns: what it parsed and built
\* is gone (nothing but the store persists between requests).
Returned ==
  /\ req # NoRequest
  /\ req' = NoRequest
  /\ resp' = NoResponse
  /\ sent' = <<>>
  /\ parsed' = <<>>
  /\ db0' = db
  /\ UNCHANGED db

Get == GetOn(Tables, Queries) /\ UNCHANGED hist
Post == PostOn(Tables, PostBodies) /\ UNCHANGED hist
Patch == PatchOn(Tables, Queries, PatchBodies) /\ UNCHANGED hist
Delete == DeleteOn(Tables, Queries) /\ UNCHANGED hist
Close == Returned /\ UNCHANGED hist

Next == Get \/ Post \/ Patch \/ Delete \/ Close

Spec == Init /\ [][Next]_vars

(* ------------------------------------------------------------------ *)
(* parseSupabaseSelect on its own                                     *)
(* ------------------------------------------------------------------ *)
\* The terms of a select expression: a plain column (or *), or a relation
\* token name(columns).
ColTerm(name) == [rel |-> FALSE, name |-> name, columns |-> <<>>]
RelTerm(name, columns) == [rel |-> TRUE, name |-> name, columns |-> columns]

\* The relation tokens the client writes for a table: the tables its
\* foreign keys reference.
SelectTables == {"products", "stock_movements", "audit_logs"}
RelTerms(table) ==
  CASE table = "products" -> {RelTerm(s_categories, <<s_id, s_name>>), RelTerm(s_suppliers, <<s_id>>)}
    [] table = "stock_movements" -> {RelTerm(s_products, <<s_id>>), RelTerm(s_users, <<s_id>>)}
    [] OTHER -> {RelTerm(s_users, <<s_id>>)}
Terms(table) == {ColTerm(s_star), ColTerm(s_id)} \cup RelTerms(table)

\* The text of a list of strings joined by sep, and of a term.
RECURSIVE Join(_, _, _)
Join(seq, i, sep) ==
  IF i > Len(seq) THEN <<>>
  ELSE IF i = Len(seq) THEN seq[i]
  ELSE seq[i] \o sep \o Join(seq, i + 1, sep)
TermText(t) ==
  IF t.rel THEN t.name \o <<"(">> \o Join(t.columns, 1, <<",">>) \o <<")">> ELSE t.name
SelectText(terms, sep) == Join([i \in 1..Len(terms) |-> TermText(terms[i])] \o <<>>, 1, sep)

\* parseSupabaseSelect called on the text of at most MaxTerms terms.
ParseSelect ==
  /\ call = NoCall
  /\ \E table \in SelectTables, n \in 1..MaxTerms, sep \in {<<",">>, <<",", " ">>} :
       \E terms \in [1..n -> Terms(table)] :
         call' = Bind(SelectText(terms, sep), LAMBDA text :
                   [terms |-> terms, table |-> table, selectStr |-> text,
                    result |-> parseSupabaseSelect(text, table)])
  /\ UNCHANGED <<served, posted, moved, front>>

NextSelect == ParseSelect

SpecSelect == Init /\ [][NextSelect]_vars

(* ------------------------------------------------------------------ *)
(* Writing a row and reading it back                                  *)
(* ------------------------------------------------------------------ *)
\* The decimal text of a small number, as the client puts an id in a URL.
NumText(n) == <<CHOOSE c \in Digits : DigitVal(c) = n>>

\* ?id=eq.<n>
ById(n) == <<[key |-> s_id, val |-> WithOp(s_eq, NumText(n))]>>
IdQueries == {ById(n) : n \in 1..MaxRows}

\* A POST of one object: when it succeeds, the object and the row answered
\* are remembered.
PostOne ==
  /\ PostOn({"products"}, {[isArray |-> FALSE, items |-> <<o>>] : o \in PostObjects})
  /\ posted' = IF resp'.status = 200
               THEN [object |-> req'.body.items[1], row |-> resp'.rows[1], table |-> req'.table]
               ELSE NoPost
  /\ UNCHANGED <<moved, call, front>>

\* A GET by id.
GetById == GetOn({"products"}, IdQueries \cup {<<>>}) /\ UNCHANGED hist

\* Writes by id: after one, the row posted last may be gone or changed.
PatchById ==
  /\ PatchOn({"products"}, IdQueries, {Obj1(s_current_stock, IntV(1))})
  /\ posted' = NoPost
  /\ UNCHANGED <<moved, call, front>>

DeleteById ==
  /\ DeleteOn({"products"}, IdQueries)
  /\ posted' = NoPost
  /\ UNCHANGED <<moved, call, front>>

NextRoundTrip == PostOne \/ GetById \/ PatchById \/ DeleteById \/ Close

SpecRoundTrip == Init /\ [][NextRoundTrip]_vars

(* ------------------------------------------------------------------ *)
(* Reading products with their category                               *)
(* ------------------------------------------------------------------ *)
\* select=*,categories(id,name) and select=id, categories (name)
s_star_categories ==
  s_star \o <<",">> \o s_categories \o <<"(">> \o s_id \o <<",">> \o s_name \o <<")">>
s_id_categories ==
  s_id \o <<",", " ">> \o s_categories \o <<" ", "(">> \o s_name \o <<")">>
RelationSelects == {s_star_categories, s_id_categories}

\* Querystrings that ask for the category of each product, with or without
\* a filter on the products.
RelationQueries ==
  {<<[key |-> s_select, val |-> v]>> \o f
     : v \in RelationSelects,
       f \in {<<>>, <<[key |-> s_category_id, val |-> WithOp(s_eq, <<"1">>)]>>,
              <<[key |-> s_current_stock, val |-> WithOp(s_lte, <<"1">>)]>>}}

CategoryObjects == {Obj1(s_name, IntV(n)) : n \in 1..MaxRows}
CategorizedObjects ==
  {Obj1(s_qr_code, IntV(q)) : q \in 1..MaxRows}
  \cup {Obj1(s_qr_code, IntV(q)) \o Obj1(s_category_id, IntV(k)) : q, k \in 1..MaxRows}

PostCategory ==
  /\ PostOn({"categories"}, {[isArray |-> FALSE, items |-> <<o>>] : o \in CategoryObjects})
  /\ UNCHANGED hist

PostCategorized ==
  /\ PostOn({"products"}, {[isArray |-> FALSE, items |-> <<o>>] : o \in CategorizedObjects})
  /\ UNCHANGED hist

DeleteCategory == DeleteOn({"categories"}, IdQueries) /\ UNCHANGED hist

GetWithCategory == GetOn({"products"}, RelationQueries) /\ UNCHANGED hist

NextRelations == PostCategory \/ PostCategorized \/ DeleteCategory \/ GetWithCategory \/ Close

SpecRelations == Init /\ [][NextRelations]_vars

(* ------------------------------------------------------------------ *)
(* POST /api/auth/login                                                *)
(* ------------------------------------------------------------------ *)
\* The texts usernames and passwords are drawn from, and the values
\* Date.now() takes.
Texts == {1, 2}
Clock == {1, 2}

\* body[key], undefined (bound as NULL) when the body has no such key.
Field(obj, key) ==
  IF \E i \in 1..Len(obj) : obj[i].col = key
  THEN obj[CHOOSE i \in 1..Len(obj) : obj[i].col = key].val
  ELSE NullV

\* 'SELECT * FROM profiles WHERE username = $1 AND password_hash = $2'
LoginStmt(username, password) ==
  [Stmt("SELECT", "profiles") EXCEPT
     !.proj = <<[kind |-> "star", col |-> <<>>, columns |-> <<>>, targetTable |-> "profiles"]>>,
     !.where = <<[tbl |-> "", col |-> s_username, op |-> "=", ph |-> 1],
                 [tbl |-> "", col |-> s_password_hash, op |-> "=", ph |-> 2]>>,
     !.params = <<username, password>>]

\* { access_token: `token_${Date.now()}`, user_id: user.id }
Session(now, user) ==
  [k \in {s_access_token, s_user_id} |->
     IF k = s_user_id THEN user[s_id] ELSE StrV(s_token_ \o NumText(now))]

\* res.json({ session, user })
SessionResponse(session, user) ==
  [status |-> 200, kind |-> "session", rows |-> <<session, user>>, error |-> ""]

\* A rejection the handler does not catch: the framework's own error page,
\* status 500, not a JSON body.
Unhandled == [status |-> 500, kind |-> "html", rows |-> <<>>, error |-> "TypeError"]

\* An answer that tells an unknown username from a wrong password.
UnauthorizedTelling(d, username) ==
  IF \E r \in d["profiles"] : r[s_username] = username
  THEN ErrorResponse(401, "wrong password")
  ELSE ErrorResponse(404, "no such user")

\* return res.status(401).json({ error: 'Credenciais invalidas' })
Unauthorized(d, username) == ErrorResponse(401, "Credenciais invalidas")

\* The try block of the login handler, for a body that is an object.
LoginTry(obj, d) ==
  Bind(LoginStmt(Field(obj, s_username), Field(obj, s_password)), LAMBDA stmt :
    Bind(Exec(stmt, d), LAMBDA r :
      IF ~r.ok
      THEN {Outcome(ErrorResponse(500, r.err), <<[stmt |-> stmt, ok |-> FALSE]>>, <<>>, r.db)}
      ELSE IF r.rows = {}
      THEN {Outcome(Unauthorized(d, Field(obj, s_username)),
                    <<[stmt |-> stmt, ok |-> TRUE]>>, <<>>, r.db)}
      ELSE {Outcome(SessionResponse(Session(now, user), user),
                    <<[stmt |-> stmt, ok |-> TRUE]>>, <<>>, r.db)
            : user \in r.rows, now \in Clock}))

\* const { username, password } = req.body, before the try block: with no
\* JSON body sent, req.body is undefined and the destructuring throws
\* outside the try (express 5), or req.body is {} (express 4).
LoginOutcomes(body, d) ==
  IF body = NoBody
  THEN {Outcome(Unhandled, <<>>, <<>>, d)} \cup LoginTry(<<>>, d)
  ELSE LoginTry(body.items[1], d)

Credentials ==
  {<<>>} \cup {Obj1(s_username, IntV(u)) \o Obj1(s_password, IntV(p)) : u, p \in Texts}
LoginBodies == {NoBody} \cup {[isArray |-> FALSE, items |-> <<o>>] : o \in Credentials}

ProfileObjects ==
  {Obj1(s_username, IntV(u)) \o Obj1(s_password_hash, IntV(p)) : u, p \in Texts}
  \cup {Obj1(s_bogus, IntV(1))}
ProfileQueries ==
  {<<>>, ById(1), <<[key |-> s_username, val |-> WithOp(s_eq, <<"1">>)]>>,
   <<[key |-> s_bogus, val |-> WithOp(s_eq, <<"1">>)]>>}

\* The store with or without the table the login handler reads:
\* database-schema.sql creates users, not profiles.
InitLogin ==
  /\ db \in {[t \in T |-> {}] : T \in {StoreTables, StoreTables \ {"profiles"}}}
  /\ db0 = db
  /\ req = NoRequest
  /\ resp = NoResponse
  /\ sent = <<>>
  /\ parsed = <<>>
  /\ posted = NoPost
  /\ moved = NoMove
  /\ call = NoCall
  /\ client = NoClient
  /\ localStorage = NoStorage
  /\ forms = NoForms
  /\ mockData = NoMock

Login ==
  /\ Idle
  /\ \E body \in LoginBodies : \E o \in LoginOutcomes(body, db) :
       Served([method |-> "POST", table |-> "auth/login", query |-> <<>>, body |-> body], o)
  /\ UNCHANGED hist

PostProfile ==
  /\ "profiles" \in DOMAIN db => Cardinality(db["profiles"]) < MaxProfiles
  /\ PostOn({"profiles"}, {[isArray |-> FALSE, items |-> <<o>>] : o \in ProfileObjects})
  /\ UNCHANGED hist

GetProfiles == GetOn({"profiles"}, ProfileQueries) /\ UNCHANGED hist

PatchProfile ==
  /\ PatchOn({"profiles"}, ProfileQueries,
             {Obj1(s_password_hash, IntV(p)) : p \in Texts})
  /\ UNCHANGED hist

DeleteProfile == DeleteOn({"profiles"}, ProfileQueries) /\ UNCHANGED hist

NextLogin == Login \/ PostProfile \/ GetProfiles \/ PatchProfile \/ DeleteProfile \/ Close

SpecLogin == InitLogin /\ [][NextLogin]_vars

(* ------------------------------------------------------------------ *)
(* Stock movements and the stock of their product                     *)
(* ------------------------------------------------------------------ *)
StockLevels == {1, 2}
MovementObjects ==
  {Obj1(s_product_id, IntV(p)) \o Obj1(s_new_stock, IntV(n))
     : p \in 1..MaxRows, n \in StockLevels}

\* The ids of the rows of a response.
IdsOf(response) == {response.rows[i][s_id].n : i \in 1..Len(response.rows)}

PostStocked ==
  /\ PostOn({"products"},
            {[isArray |-> FALSE, items |-> <<Obj1(s_qr_code, IntV(q))>>] : q \in Texts})
  /\ UNCHANGED hist

\* A POST of one movement: when it succeeds, its new_stock is remembered
\* for its product.
PostMovement ==
  /\ Cardinality(db["stock_movements"]) < MaxMoves
  /\ PostOn({"stock_movements"},
            {[isArray |-> FALSE, items |-> <<o>>] : o \in MovementObjects})
  /\ moved' = IF resp'.status = 200
              THEN [moved EXCEPT ![resp'.rows[1][s_product_id].n] =
                      [new_stock |-> resp'.rows[1][s_new_stock], touched |-> FALSE]]
              ELSE moved
  /\ UNCHANGED <<posted, call, front>>

\* A PATCH of the stock of a product: the products it answers were updated.
PatchStock ==
  /\ PatchOn({"products"}, IdQueries, {Obj1(s_current_stock, IntV(n)) : n \in StockLevels})
  /\ moved' = [p \in DOMAIN moved |->
                 IF resp'.status = 200 /\ p \in IdsOf(resp')
                 THEN [moved[p] EXCEPT !.touched = TRUE] ELSE moved[p]]
  /\ UNCHANGED <<posted, call, front>>

\* A DELETE of a product: it and its movements are gone.
DeleteStocked ==
  /\ DeleteOn({"products"}, IdQueries)
  /\ moved' = [p \in DOMAIN moved |->
                 IF resp'.status = 200 /\ p \in IdsOf(resp')
                 THEN [new_stock |-> NullV, touched |-> FALSE] ELSE moved[p]]
  /\ UNCHANGED <<posted, call, front>>

GetStock == GetOn({"products"}, IdQueries) /\ UNCHANGED hist

NextMovements == PostStocked \/ PostMovement \/ PatchStock \/ DeleteStocked \/ GetStock \/ Close

SpecMovements == Init /\ [][NextMovements]_vars

(* ------------------------------------------------------------------ *)
(* The client's query helper: QueryBuilder and db.from(table)         *)
(* ------------------------------------------------------------------ *)
\* `${value}`
ValueText(v) ==
  CASE v.t = "int" -> NumText(v.n)
    [] v.t = "null" -> s_null
    [] OTHER -> v.s

\* URLSearchParams.set(key, val): the value of the first entry of that key
\* is replaced (there is never a second one), or the entry is appended.
ParamsSet(params, key, val) ==
  IF \E i \in 1..Len(params) : params[i].key = key
  THEN [i \in 1..Len(params) |->
          IF params[i].key = key THEN [key |-> key, val |-> val] ELSE params[i]] \o <<>>
  ELSE Append(params, [key |-> key, val |-> val])

\* new QueryBuilder(table).select(columns)
QueryBuilder(table, columns) ==
  [NoClient EXCEPT !.kind = "builder", !.table = table,
                   !.params = ParamsSet(<<>>, s_select, columns)]

\* A chained method called on a builder: eq, neq, gte, lte, gt, lt and is
\* (kind "filter"), not, order, limit, single.  The calls are remembered in
\* chain.
Chain(b, c) ==
  Bind([b EXCEPT !.chain = Append(@, c)], LAMBDA this :
    CASE c.kind = "filter" ->
           [this EXCEPT !.params = ParamsSet(@, c.column, c.op \o s_dot \o ValueText(c.value))]
      [] c.kind = "not" ->
           [this EXCEPT !.params =
              ParamsSet(@, c.column, s_not \o s_dot \o c.op \o s_dot \o ValueText(c.value))]
      [] c.kind = "order" ->
           [this EXCEPT !.params = ParamsSet(@, s_order, c.column \o s_dot \o c.op)]
      [] c.kind = "limit" ->
           [this EXCEPT !.params = ParamsSet(@, s_limit, ValueText(c.value))]
      [] OTHER -> [this EXCEPT !.isSingle = TRUE])

\* A chained method that sends the query as soon as a filter is added.
EagerFetches(c) == IF c.kind = "filter" THEN 1 ELSE 0

\* The calls of fetch a chained method makes: none, each returns this.
Fetches(c) == 0

\* await response.json(): the body as a value, "throw" when it is not JSON.
Json(response) ==
  CASE response.kind = "rows" -> [kind |-> "array", rows |-> response.rows, error |-> ""]
    [] response.kind \in {"row", "session"} ->
         [kind |-> "object", rows |-> response.rows, error |-> ""]
    [] response.kind = "error" -> [kind |-> "object", rows |-> <<>>, error |-> response.error]
    [] OTHER -> [kind |-> "throw", rows |-> <<>>, error |-> ""]

Settled(data, error) == [settled |-> TRUE, data |-> data, error |-> error]
Thrown(message) == [null |-> FALSE, message |-> message]

\* QueryBuilder.execute, from the response of fetch(url) on.
execute(this, response) ==
  Bind(Json(response), LAMBDA data :
    IF data.kind = "throw"
    THEN Settled(IF this.isSingle THEN JsonNull
                 ELSE [kind |-> "array", rows |-> <<>>, error |-> ""], Thrown("SyntaxError"))
    ELSE IF data.error # "" THEN Settled(JsonNull, Thrown(data.error))
    ELSE IF this.isSingle
    THEN IF data.kind = "array" /\ data.rows = <<>> THEN Settled(JsonNull, NoError)
         ELSE Settled([kind |-> "object", rows |-> <<data.rows[1]>>, error |-> ""], NoError)
    ELSE Settled([data EXCEPT !.kind = "array"], NoError))

\* doInsert of db.from(table).insert(values), from the response on.
doInsert(response) ==
  Bind(Json(response), LAMBDA data :
    IF data.kind = "throw" THEN Settled(JsonNull, Thrown("SyntaxError"))
    ELSE IF data.error # "" THEN Settled(JsonNull, Thrown(data.error))
    ELSE Settled(data, NoError))

\* update(values).eq and delete().eq, from the response on:
\* return { data, error: null }
UnheededResult(response) ==
  Bind(Json(response), LAMBDA data :
    IF data.kind = "throw" THEN Settled(JsonNull, Thrown("SyntaxError"))
    ELSE Settled(data, NoError))

\* The chained calls and the values the pages make.
ChainCalls ==
  {[kind |-> "filter", op |-> o, column |-> s_current_stock, value |-> IntV(1)]
     : o \in {s_eq, s_neq, s_gte, s_lte, s_gt, s_lt}}
  \cup {[kind |-> "filter", op |-> s_is, column |-> s_current_stock, value |-> NullV],
        [kind |-> "not", op |-> s_is, column |-> s_current_stock, value |-> NullV],
        [kind |-> "order", op |-> s_asc, column |-> s_id, value |-> NullV],
        [kind |-> "limit", op |-> <<>>, column |-> <<>>, value |-> IntV(1)],
        [kind |-> "single", op |-> <<>>, column |-> <<>>, value |-> NullV]}
InsertValues ==
  {Obj1(s_qr_code, IntV(q)) : q \in Texts}
  \cup {Obj1(s_qr_code, IntV(1)) \o Obj1(s_current_stock, IntV(1)), Obj1(s_bogus, IntV(1))}
UpdateValues == {Obj1(s_current_stock, IntV(1)), Obj1(s_bogus, IntV(1))}

\* The request a terminal operation sends, served by the handler, and the
\* result the operation settles with.
Fetched(r, o, result) ==
  /\ Served(r, o)
  /\ client' = [client EXCEPT !.kind = "settled", !.fetches = @ + 1, !.result = result]
  /\ UNCHANGED <<posted, moved, call, localStorage, forms, mockData>>

\* db.from(table).select(columns)
FromSelect ==
  /\ Idle
  /\ client' = QueryBuilder("products", s_star)
  /\ UNCHANGED <<served, posted, moved, call, localStorage, forms, mockData>>

\* .eq(...), .order(...), .limit(...), .single(), ...
ChainCall ==
  /\ client.kind = "builder" /\ Len(client.chain) < MaxCalls
  /\ \E c \in ChainCalls : client' = [Chain(client, c) EXCEPT !.fetches = @ + Fetches(c)]
  /\ UNCHANGED <<served, posted, moved, call, localStorage, forms, mockData>>

\* await builder: then() calls execute(), which fetches
\* `${API_URL}/${this.table}?${this.params.toString()}`.
Await ==
  /\ Idle /\ client.kind = "builder"
  /\ \E o \in GetOutcomes(client.table, client.params, db) :
       Fetched([method |-> "GET", table |-> client.table, query |-> client.params,
                body |-> NoBody], o, execute(client, o.resp))

\* db.from(table).insert(values): nothing is sent yet.
FromInsert ==
  /\ Idle
  /\ \E values \in InsertValues :
       client' = [NoClient EXCEPT !.kind = "insert", !.table = "products", !.values = values]
  /\ UNCHANGED <<served, posted, moved, call, localStorage, forms, mockData>>

\* await insert(values), or insert(values).single(): doInsert() runs.
AwaitInsert ==
  /\ Idle /\ client.kind = "insert"
  /\ \E body \in {[isArray |-> FALSE, items |-> <<client.values>>]} :
       \E o \in PostOutcomes(client.table, body, db) :
         Fetched([method |-> "POST", table |-> client.table, query |-> <<>>, body |-> body],
                 o, doInsert(o.resp))

\* fetch(`${API_URL}/${table}?${column}=eq.${value}`, ...)
EqQueries == {<<[key |-> column, val |-> s_eq \o s_dot \o ValueText(IntV(1))]>>
                : column \in {s_id, s_bogus}}

\* db.from(table).update(values).eq(column, value)
UpdateEq ==
  /\ Idle
  /\ \E values \in UpdateValues, query \in EqQueries :
       \E o \in PatchOutcomes("products", query, values, db) :
         /\ Served([method |-> "PATCH", table |-> "products", query |-> query,
                    body |-> [isArray |-> FALSE, items |-> <<values>>]], o)
         /\ client' = [NoClient EXCEPT !.kind = "settled", !.table = "products",
                                       !.values = values, !.fetches = 1,
                                       !.result = UnheededResult(o.resp)]
  /\ UNCHANGED <<posted, moved, call, localStorage, forms, mockData>>

\* db.from(table).delete().eq(column, value)
DeleteEq ==
  /\ Idle
  /\ \E query \in EqQueries :
       \E o \in DeleteOutcomes("products", query, db) :
         /\ Served([method |-> "DELETE", table |-> "products", query |-> query,
                    body |-> NoBody], o)
         /\ client' = [NoClient EXCEPT !.kind = "settled", !.table = "products",
                                       !.fetches = 1, !.result = UnheededResult(o.resp)]
  /\ UNCHANGED <<posted, moved, call, localStorage, forms, mockData>>

NextClient ==
  FromSelect \/ ChainCall \/ Await \/ FromInsert \/ AwaitInsert \/ UpdateEq \/ DeleteEq \/ Close

SpecClient == Init /\ [][NextClient]_vars

(* ------------------------------------------------------------------ *)
(* Signing in and out: db.auth and the Auth page                      *)
(* ------------------------------------------------------------------ *)
\* localStorage.setItem(key, value), removeItem(key), getItem(key)
setItem(storage, key, value) ==
  [k \in DOMAIN storage \cup {key} |-> IF k = key THEN value ELSE storage[k]]
removeItem(storage, key) == [k \in DOMAIN storage \ {key} |-> storage[k]]
\* getItem gives the item, or nothing (null) when the key is not there.
getItem(storage, key) == IF key \in DOMAIN storage THEN <<storage[key]>> ELSE <<>>

\* What is stored under 'session' and 'user': the JSON text of the session
\* (its token, and its user field when it has one) and of the user.
Undefined == "undefined"
StoredSession(token, user) == [access_token |-> token, user |-> user]

\* db.auth.signInWithPassword, from the response of the login route on.
signInWithPassword(storage, response) ==
  IF ~(response.status \in 200..299)
  THEN [storage |-> storage, result |-> Settled(JsonNull, Thrown("Credenciais invalidas"))]
  ELSE Bind(Json(response), LAMBDA data :
         IF data.kind = "throw"
         THEN [storage |-> storage, result |-> Settled(JsonNull, Thrown("SyntaxError"))]
         ELSE [storage |-> setItem(setItem(storage, "session",
                                           StoredSession(data.rows[1][s_access_token], Undefined)),
                                   "user", data.rows[2]),
               result |-> Settled(data, NoError)])

\* A sign-out that forgets the session alone.
signOutSessionOnly(storage) == removeItem(storage, "session")

\* db.auth.signOut
signOut(storage) == removeItem(removeItem(storage, "session"), "user")

\* db.auth.getSession: { session, user } when both items are there.
getSession(storage) ==
  IF getItem(storage, "session") # <<>> /\ getItem(storage, "user") # <<>>
  THEN [session |-> getItem(storage, "session"), user |-> getItem(storage, "user")]
  ELSE [session |-> <<>>, user |-> <<>>]

\* The users the Auth page knows, and what is typed into it.
PageUsers ==
  {[id |-> "1", username |-> "admin", password |-> "teste123"],
   [id |-> "2", username |-> "gestor", password |-> "teste123"]}
Typed ==
  {[username |-> u, password |-> p] : u \in {"admin", "gestor", "nobody"},
                                      p \in {"teste123", "letmein"}}

\* handleSignIn of the Auth page, from the credentials typed.
handleSignIn(storage, typed) ==
  Bind({u \in PageUsers : u.username = typed.username /\ u.password = typed.password},
    LAMBDA found :
      IF found = {}
      THEN [storage |-> storage, result |-> Settled(JsonNull, Thrown("Usuario ou senha invalidos"))]
      ELSE Bind(CHOOSE u \in found : TRUE, LAMBDA user :
             [storage |-> setItem(setItem(storage, "session",
                                          StoredSession(<<"mock-token-", user.id>>, user.id)),
                                  "user", user.id),
              result |-> Settled(JsonNull, NoError)]))

\* An operation of db.auth or of the Auth page that has settled.
Authed(kind, done) ==
  /\ client' = [NoClient EXCEPT !.kind = kind, !.result = done.result]
  /\ localStorage' = done.storage
  /\ UNCHANGED <<posted, moved, call, forms, mockData>>

SignInWithPassword ==
  /\ Idle
  /\ \E o \in Credentials \ {<<>>} :
       \E body \in {[isArray |-> FALSE, items |-> <<o>>]} :
         \E out \in LoginOutcomes(body, db) :
           /\ Served([method |-> "POST", table |-> "auth/login", query |-> <<>>,
                      body |-> body], out)
           /\ Authed("signin", signInWithPassword(localStorage, out.resp))

HandleSignIn ==
  /\ Idle
  /\ \E typed \in Typed : Authed("signin", handleSignIn(localStorage, typed))
  /\ UNCHANGED served

SignOut ==
  /\ Idle
  /\ Authed("signout", [storage |-> signOut(localStorage), result |-> Settled(JsonNull, NoError)])
  /\ UNCHANGED served

NextAuth == SignInWithPassword \/ HandleSignIn \/ SignOut \/ PostProfile \/ Close

SpecAuth == Init /\ [][NextAuth]_vars

(* ------------------------------------------------------------------ *)
(* The in-memory backend (mockData)                                   *)
(* ------------------------------------------------------------------ *)
\* { ...row, ...values }
Spread(row, values) ==
  [k \in DOMAIN row \cup DOMAIN values |->
     IF k \in DOMAIN values THEN values[k] ELSE row[k]]

\* row[column] === value
RowIs(row, column, value) == column \in DOMAIN row /\ row[column] = value

\* findIndex: the first row the predicate holds of, 0 (for -1) when none.
findIndex(rows, column, value) ==
  IF \E i \in 1..Len(rows) : RowIs(rows[i], column, value)
  THEN CHOOSE i \in 1..Len(rows) :
         /\ RowIs(rows[i], column, value)
         /\ \A j \in 1..(i - 1) : ~RowIs(rows[j], column, value)
  ELSE 0

\* rows.filter(row => keep(row)), in order.
RECURSIVE FilterRows(_, _, _, _, _)
FilterRows(rows, column, value, same, i) ==
  IF i > Len(rows) THEN <<>>
  ELSE (IF RowIs(rows[i], column, value) = same THEN <<rows[i]>> ELSE <<>>)
         \o FilterRows(rows, column, value, same, i + 1)

\* generateUUID() and new Date().toISOString()
Uuids == {"u1"}
Dates == {"t1", "t2"}

\* What the forms give to insert and update, and filter by.
MockValues ==
  {[status |-> st] : st \in {"ativo", "inativo"}}
    \cup {[id |-> "a", status |-> st] : st \in {"ativo", "inativo"}}
MockFilters ==
  {<<"id", v>> : v \in {"a", "u1", "zz"}} \cup {<<"status", v>> : v \in {"ativo", "inativo"}}

\* supabase.from(table).insert(values), one object.
mockInsert(data, table, v, uuid, created, updated) ==
  Bind([id |-> IF "id" \in DOMAIN v THEN v.id ELSE uuid,
        created_at |-> created, updated_at |-> updated],
    LAMBDA stamped :
      [data |-> [data EXCEPT ![table] = @ \o <<Spread(v, stamped)>>],
       result |-> Settled([kind |-> "array", rows |-> <<Spread(v, stamped)>>, error |-> ""],
                          NoError)])

\* supabase.from(table).update(values).eq(column, value)
mockUpdateEq(data, table, values, column, value, now) ==
  Bind(findIndex(data[table], column, value), LAMBDA index :
    IF index >= 1
    THEN Bind(Spread(Spread(data[table][index], values), [updated_at |-> now]),
           LAMBDA row :
             [data |-> [data EXCEPT ![table][index] = row],
              result |-> Settled([kind |-> "object", rows |-> <<row>>, error |-> ""],
                                 NoError)])
    ELSE [data |-> data, result |-> Settled(JsonNull, Thrown("Record not found"))])

\* supabase.from(table).delete().eq(column, value)
mockDeleteEq(data, table, column, value) ==
  [data |-> [data EXCEPT ![table] = FilterRows(data[table], column, value, FALSE, 1) \o <<>>],
   result |-> Settled([kind |-> "array",
                       rows |-> FilterRows(data[table], column, value, TRUE, 1) \o <<>>,
                       error |-> ""], NoError)]

\* An operation of the in-memory backend that has settled.
Mocked(kind, values, filter, done) ==
  /\ client' = [NoClient EXCEPT !.kind = kind, !.table = "products",
                                !.values = values, !.params = filter,
                                !.result = done.result]
  /\ mockData' = done.data
  /\ UNCHANGED <<served, posted, moved, call, localStorage, forms>>

MockInsert ==
  /\ Len(mockData["products"]) < MaxMock
  /\ \E v \in MockValues, uuid \in Uuids, created \in Dates, updated \in Dates :
       Mocked("insert", <<v>>, <<>>,
              mockInsert(mockData, "products", v, uuid, created, updated))

MockUpdateEq ==
  /\ "products" \in DOMAIN mockData
  /\ \E v \in MockValues, f \in MockFilters, now \in Dates :
    Mocked("update", <<v>>, f, mockUpdateEq(mockData, "products", v, f[1], f[2], now))

MockDeleteEq ==
  /\ "products" \in DOMAIN mockData
  /\ \E f \in MockFilters :
    Mocked("delete", <<>>, f, mockDeleteEq(mockData, "products", f[1], f[2]))

NextMock == MockInsert \/ MockUpdateEq \/ MockDeleteEq

SpecMock == Init /\ [][NextMock]_vars

(* ------------------------------------------------------------------ *)
(* The movement form                                                  *)
(* ------------------------------------------------------------------ *)
\* movementSchema: the type is one of four, the quantity an integer >= 1.
MovementTypes == {"entrada", "saida", "ajuste", "inventario"}
Quantities == {1, 2}

\* loadProducts: select id and current_stock of the products, in order.
\* (name and status are not among the columns kept of products.)
LoadQuery ==
  <<[key |-> s_select, val |-> s_id \o <<",", " ">> \o s_current_stock],
    [key |-> s_order, val |-> s_id]>>

\* calculateNewStock, with a product selected and a quantity given.
calculateNewStock(selectedProduct, watchedType, watchedQuantity) ==
  CASE watchedType = "entrada" -> selectedProduct[s_current_stock].n + watchedQuantity
    [] watchedType = "saida" -> selectedProduct[s_current_stock].n - watchedQuantity
    [] OTHER -> watchedQuantity

\* A form that never warns.
NoStockWarning(selected, watchedType, watchedQuantity) == FALSE

\* hasStockWarning
hasStockWarning(selected, watchedType, watchedQuantity) ==
  /\ watchedType = "saida"
  /\ selected # <<>>
  /\ watchedQuantity > selected[1][s_current_stock].n

\* session?.user of the session getSession gives.
SessionUser(storage) ==
  IF getSession(storage).session = <<>> THEN Undefined
  ELSE getSession(storage).session[1].user

\* movementData, as the columns kept of stock_movements.
movementData(selectedProduct, calculatedNewStock) ==
  Obj1(s_product_id, selectedProduct[s_id]) \o Obj1(s_new_stock, IntV(calculatedNewStock))

\* current_stock of product p in the store.
StockOf(d, p) == (CHOOSE r \in d["products"] : r[s_id] = IntV(p))[s_current_stock].n

\* The form is mounted: it loads the products; nothing is selected.
LoadProducts ==
  /\ Idle
  /\ \E f \in FormIds :
       \E o \in GetOutcomes("products", LoadQuery, db) :
         /\ Served([method |-> "GET", table |-> "products", query |-> LoadQuery,
                    body |-> NoBody], o)
         /\ forms' = [forms EXCEPT !.open[f] =
                        [products |-> IF execute(NoClient, o.resp).error.null
                                      THEN execute(NoClient, o.resp).data.rows ELSE <<>>,
                         selectedProduct |-> <<>>]]
  /\ UNCHANGED <<posted, moved, call, client, localStorage, mockData>>

\* A product of the loaded list is chosen in the form.
SelectProduct ==
  /\ Idle
  /\ \E f \in FormIds :
       \E i \in 1..Len(forms.open[f].products) :
         /\ forms.open[f].selectedProduct # <<forms.open[f].products[i]>>
         /\ forms' = [forms EXCEPT !.open[f].selectedProduct = <<forms.open[f].products[i]>>]
  /\ UNCHANGED <<served, posted, moved, call, client, localStorage, mockData>>

\* What a submission leaves in the history.
Submission(outcome, type, quantity, selected, before, wrote) ==
  [outcome |-> outcome, type |-> type, quantity |-> quantity,
   selected |-> selected # <<>>,
   loaded |-> IF selected = <<>> THEN 0 ELSE selected[1][s_current_stock].n,
   previous_stock |-> IF selected = <<>> THEN 0 ELSE selected[1][s_current_stock].n,
   new_stock |-> IF selected = <<>> THEN 0
                 ELSE calculateNewStock(selected[1], type, quantity),
   before |-> before, wrote |-> wrote]

\* onSubmit of form f with the type and quantity watched.
onSubmit(f, type, quantity) ==
  IF \/ forms.open[f].selectedProduct = <<>>
     \/ hasStockWarning(forms.open[f].selectedProduct, type, quantity)
     \/ SessionUser(localStorage) = Undefined
  THEN /\ forms' = [forms EXCEPT !.last =
                      Submission("rejected", type, quantity,
                                 forms.open[f].selectedProduct, 0, FALSE)]
       /\ UNCHANGED served
  ELSE \E selectedProduct \in {forms.open[f].selectedProduct[1]} :
       \E body \in {[isArray |-> FALSE,
                     items |-> <<movementData(selectedProduct,
                                   calculateNewStock(selectedProduct, type, quantity))>>]} :
       \E o \in PostOutcomes("stock_movements", body, db) :
         /\ Served([method |-> "POST", table |-> "stock_movements", query |-> <<>>,
                    body |-> body], o)
         /\ forms' =
              IF doInsert(o.resp).error.null
              THEN [forms EXCEPT
                      !.open[f].selectedProduct = <<>>,
                      !.net[selectedProduct[s_id].n] =
                         [sum |-> CASE type = "entrada" -> @.sum + quantity
                                    [] type = "saida" -> @.sum - quantity
                                    [] OTHER -> @.sum,
                          plain |-> @.plain /\ type \in {"entrada", "saida"}],
                      !.last = Submission("inserted", type, quantity, <<selectedProduct>>,
                                          StockOf(db, selectedProduct[s_id].n), o.db # db)]
              ELSE [forms EXCEPT
                      !.last = Submission("failed", type, quantity, <<selectedProduct>>,
                                          0, o.db # db)]

\* The product the forms move: one product, just created.
PostFormProduct ==
  /\ db["products"] = {}
  /\ PostOn({"products"}, {[isArray |-> FALSE, items |-> <<Obj1(s_qr_code, IntV(1))>>]})
  /\ UNCHANGED hist

\* The Auth page, shown when no session is stored.
SignInAtPage == "session" \notin DOMAIN localStorage /\ HandleSignIn

Submit ==
  /\ Idle
  /\ Cardinality(db["stock_movements"]) < MaxMoves
  /\ \E f \in FormIds, type \in MovementTypes, quantity \in Quantities :
       onSubmit(f, type, quantity)
  /\ UNCHANGED <<posted, moved, call, client, localStorage, mockData>>

NextForms == PostFormProduct \/ SignInAtPage \/ LoadProducts \/ SelectProduct \/ Submit \/ Close

SpecForms == Init /\ [][NextForms]_vars

(* ------------------------------------------------------------------ *)
(* What the gateway's contract says of a served request               *)
(* ------------------------------------------------------------------ *)
\* The table names the contract admits.
AllowList == {"products", "categories", "suppliers", "stock_movements", "audit_logs", "users"}

\* The querystring keys that are never filters, and the operator tokens.
Reserved == {s_select, s_order, s_count}
RecognizedOps == {s_eq, s_neq, s_gte, s_lte, s_is, s_not}

\* A request has been served and its response is in resp.
Answered == req # NoRequest

\* The filters of the request: the entries whose key is not reserved.
Filters == {e \in {req.query[i] : i \in 1..Len(req.query)} : e.key \notin Reserved}

\* The conditions of the WHERE clauses of the statements sent.
Conditions ==
  UNION {{sent[i].stmt.where[j] : j \in 1..Len(sent[i].stmt.where)} : i \in 1..Len(sent)}

\* The column identifiers the request names: filter keys, body keys, the
\* order column and the plain select columns.
Identifiers ==
  {e.key : e \in Filters}
  \cup UNION {{req.body.items[i][j].col : j \in 1..Len(req.body.items[i])}
              : i \in 1..Len(req.body.items)}
  \cup {Split(req.query[i].val, ".")[1] : i \in {k \in 1..Len(req.query) : req.query[k].key = s_order}}
  \cup UNION {{c \in {Split(req.query[i].val, ",")[j] : j \in 1..Len(Split(req.query[i].val, ","))}
                 : c # s_star /\ "(" \notin {c[k] : k \in 1..Len(c)}}
              : i \in {k \in 1..Len(req.query) : req.query[k].key = s_select}}

(* ------------------------------------------------------------------ *)
(* Claims                                                             *)
(* ------------------------------------------------------------------ *)
\* C1: a request for a table outside the allow-list is answered with a
\* 400-class error and no statement is sent to the database.
C1_UnknownTableRejected ==
  (Answered /\ req.table \notin AllowList)
    => (resp.status = 400 /\ \A i \in 1..Len(sent) : sent[i].stmt.table # req.table)

\* C2: a request on an allow-listed table that names a column the table
\* does not have is answered with a 400-class error and its statement is
\* not passed to the database.
C2_UnknownColumnRejected ==
  (Answered /\ req.table \in AllowList \cap StoreTables
     /\ Identifiers \ TableCols(req.table) # {})
    => (resp.status = 400 /\ sent = <<>>)

\* C3: a PATCH without filters, a PATCH with an empty body and a DELETE
\* without filters are rejected with status 400; no statement is executed
\* and the store is as it was.
C3_MissingFilterOrBodyRejected ==
  (\/ req.method = "PATCH" /\ (Filters = {} \/ req.body.items = <<<<>>>>)
   \/ req.method = "DELETE" /\ Filters = {})
    => (resp.status = 400 /\ sent = <<>> /\ db = db0)

\* C4: a PATCH or DELETE that succeeds had one WHERE condition for every
\* filter of the querystring.
C4_EveryFilterIsACondition ==
  (req.method \in {"PATCH", "DELETE"} /\ resp.status = 200)
    => \A e \in Filters : \E c \in Conditions : c.col = e.key

\* The characters of a string, and whether a string starts with another.
Chars(s) == {s[i] : i \in 1..Len(s)}
HasPrefix(s, p) == Len(s) >= Len(p) /\ SubSeq(s, 1, Len(p)) = p
After(s, p) == SubSeq(s, Len(p) + 1, Len(s))

\* C5: every parseFilter call on "op.v" with op a recognized token
\* returned (op, v), and every call on a string without a dot returned
\* (eq, the string).
C5_ParseFilterContract ==
  \A i \in 1..Len(parsed) :
    /\ \A op \in RecognizedOps :
         HasPrefix(parsed[i].raw, op \o s_dot)
           => (parsed[i].op = op /\ parsed[i].value = After(parsed[i].raw, op \o s_dot))
    /\ "." \notin Chars(parsed[i].raw)
         => (parsed[i].op = s_eq /\ parsed[i].value = parsed[i].raw)

\* A value "w.rest" whose word w is not an operator token.
UnrecognizedPrefix(v) ==
  /\ FirstIn(v, {"."}) > 1
  /\ \A j \in 1..(FirstIn(v, {"."}) - 1) : v[j] \in WordChars
  /\ SubSeq(v, 1, FirstIn(v, {"."}) - 1) \notin RecognizedOps

\* C6: a GET filter whose value is "w.rest" with w not an operator token
\* gives an equality condition on its column that binds the whole string.
C6_UnrecognizedPrefixIsLiteral ==
  req.method = "GET"
    => \A e \in {f \in Filters : UnrecognizedPrefix(f.val)} :
         \E c \in Conditions :
            /\ c.col = e.key
            /\ c.op = "="
            /\ sent[1].stmt.params[c.ph] = StrV(e.val)

\* The condition the contract gives a filter value with a recognized
\* operator: the SQL operator, and the value bound (none for the null checks).
Expected(v) ==
  CASE v = WithOp(s_is, s_null) -> [op |-> "IS NULL", bound |-> FALSE, value |-> <<>>]
    [] v = WithOp(s_not, WithOp(s_is, s_null)) ->
         [op |-> "IS NOT NULL", bound |-> FALSE, value |-> <<>>]
    [] HasPrefix(v, s_eq \o s_dot) ->
         [op |-> "=", bound |-> TRUE, value |-> After(v, s_eq \o s_dot)]
    [] HasPrefix(v, s_neq \o s_dot) ->
         [op |-> "!=", bound |-> TRUE, value |-> After(v, s_neq \o s_dot)]
    [] HasPrefix(v, s_gte \o s_dot) ->
         [op |-> ">=", bound |-> TRUE, value |-> After(v, s_gte \o s_dot)]
    [] HasPrefix(v, s_lte \o s_dot) ->
         [op |-> "<=", bound |-> TRUE, value |-> After(v, s_lte \o s_dot)]
    [] OTHER -> [op |-> "", bound |-> FALSE, value |-> <<>>]

\* C7: in a GET every filter with a recognized operator gives the SQL
\* condition of that operator on its column, the value bound as a
\* parameter, and none bound for is.null and not.is.null (stated for the
\* values of one line; the others are C5's).
C7_OperatorGivesItsCondition ==
  req.method = "GET"
    => \A e \in {f \in Filters : Expected(f.val).op # ""
                                  /\ Chars(f.val) \cap LineTerminators = {}} :
         \E c \in Conditions :
            /\ c.col = e.key
            /\ c.op = Expected(e.val).op
            /\ Expected(e.val).bound => sent[1].stmt.params[c.ph] = StrV(Expected(e.val).value)

\* C8: select, order and count never give a WHERE condition, are never
\* handed to parseFilter, and do not count as a filter of PATCH and DELETE.
C8_ReservedKeysAreNotFilters ==
  req.method \in {"GET", "PATCH", "DELETE"}
    => /\ \A c \in Conditions : c.col \notin Reserved
       /\ Len(parsed) <= Cardinality(Filters)
       /\ (req.method \in {"PATCH", "DELETE"} /\ Filters = {})
            => (resp.status = 400 /\ sent = <<>>)

\* The row carries the values of the object submitted.
Carries(row, object) ==
  \A j \in 1..Len(object) : row[object[j].col] = Cast(object[j].val)

\* C9: a successful POST answers one row to a single object, and to an
\* array the rows of its objects, in order and as many.
C9_PostReplyShape ==
  (req.method = "POST" /\ resp.status = 200)
    => IF req.body.isArray
       THEN /\ resp.kind = "rows"
            /\ Len(resp.rows) = Len(req.body.items)
            /\ \A i \in 1..Len(resp.rows) : Carries(resp.rows[i], req.body.items[i])
       ELSE /\ resp.kind = "row"
            /\ Carries(resp.rows[1], req.body.items[1])

\* C10: when the insert of object K+1 of a POSTed array fails, the K rows
\* before it are in the store, no object after K+1 was attempted, and the
\* response is the error, without rows.
C10_BatchInsertNotAtomic ==
  (req.method = "POST" /\ req.body.isArray /\ resp.status = 500)
    => /\ Len(sent) \in 1..Len(req.body.items)
       /\ \A i \in 1..Len(sent) :
            /\ sent[i].stmt = PostStmt(req.table, req.body.items[i])
            /\ sent[i].ok <=> i < Len(sent)
       /\ resp.kind = "error" /\ resp.rows = <<>>
       /\ req.table \in StoreTables
            => /\ db0[req.table] \subseteq db[req.table]
               /\ Cardinality(db[req.table] \ db0[req.table]) = Len(sent) - 1
               /\ \A i \in 1..(Len(sent) - 1) :
                    \E r \in db[req.table] \ db0[req.table] : Carries(r, req.body.items[i])

\* An array of three objects whose second insert failed: the first row is
\* in the store and the third object was not attempted.
C10_PartialBatch ==
  /\ req.method = "POST" /\ req.body.isArray /\ resp.status = 500
  /\ Len(sent) = 2 /\ Len(req.body.items) = 3
  /\ db # db0

\* The entries of the querystring, and its order parameters.
QueryEntries == {req.query[i] : i \in 1..Len(req.query)}
OrderGiven == {e \in QueryEntries : e.key = s_order}

\* The rows of a response, as a set.
RowSet(response) == {response.rows[i] : i \in 1..Len(response.rows)}

\* C12: a GET leaves the store as it was, and the same GET again, with
\* nothing written in between, answers the same rows, in the same order
\* when an order parameter is given.
C12_ReadsAreRepeatable ==
  req.method = "GET"
    => /\ db = db0
       /\ \A o \in GetOutcomes(req.table, req.query, db) :
            /\ o.db = db
            /\ o.resp.status = resp.status
            /\ RowSet(o.resp) = RowSet(resp)
            /\ OrderGiven # {} => o.resp.rows = resp.rows

\* A filter "eq.<number>" on a column of the table, and the number.
EqOnColumn(e) ==
  /\ e.key \in TableCols(req.table)
  /\ HasPrefix(e.val, s_eq \o s_dot)
  /\ Castable(StrV(After(e.val, s_eq \o s_dot)))
EqNumber(e) == Cast(StrV(After(e.val, s_eq \o s_dot)))

\* A PATCH of known columns, filtered by eq on known columns only.
PlainPatch ==
  /\ req.method = "PATCH" /\ req.table \in StoreTables
  /\ QueryEntries # {} /\ \A e \in QueryEntries : EqOnColumn(e)
  /\ req.body.items[1] # <<>>
  /\ \A j \in 1..Len(req.body.items[1]) :
        /\ req.body.items[1][j].col \in TableCols(req.table)
        /\ Castable(req.body.items[1][j].val)

\* C13: a PATCH with eq filters and a non-empty body that no row matches
\* answers 200 with an empty array and leaves the table as it was.
C13_PatchOfNoRow ==
  (PlainPatch /\ ~\E r \in db0[req.table] : \A e \in QueryEntries : r[e.key] = EqNumber(e))
    => (resp = RowsResponse(<<>>) /\ db = db0)

\* A PATCH that matched none of the rows of a table that has rows.
C13_NoRowOfSome ==
  /\ PlainPatch
  /\ db0[req.table] # {}
  /\ ~\E r \in db0[req.table] : \A e \in QueryEntries : r[e.key] = EqNumber(e)
  /\ resp.status = 200

\* The text between the first dot of a string and the next (or the end),
\* and the text before the first dot.
BeforeDot(v) == IF FirstIn(v, {"."}) = 0 THEN v ELSE SubSeq(v, 1, FirstIn(v, {"."}) - 1)
AfterDot(v) ==
  IF FirstIn(v, {"."}) = 0 THEN <<>>
  ELSE BeforeDot(SubSeq(v, FirstIn(v, {"."}) + 1, Len(v)))

\* C15: the SELECT of a GET has an ORDER BY clause exactly when an order
\* parameter is given, on the column before the dot, DESC exactly when
\* desc follows the dot and ASC otherwise; order gives no WHERE condition.
C15_OrderByClause ==
  req.method = "GET"
    => \A i \in 1..Len(sent) :
         /\ sent[i].stmt.order.present <=> OrderGiven # {}
         /\ \A e \in OrderGiven :
              /\ sent[i].stmt.order.col = BeforeDot(e.val)
              /\ sent[i].stmt.order.dir = (IF AfterDot(e.val) = s_desc THEN "DESC" ELSE "ASC")
         /\ \A j \in 1..Len(sent[i].stmt.where) : sent[i].stmt.where[j].col # s_order

\* A GET ordered by id.desc that returned two rows, the larger id first.
C15_DescendingRows ==
  /\ req.method = "GET" /\ resp.status = 200
  /\ \E e \in OrderGiven : e.val = WithOp(s_id, s_desc)
  /\ Len(resp.rows) = 2
  /\ resp.rows[1][s_id].n > resp.rows[2][s_id].n

\* The value the filter of a condition binds.
BoundValue(c) ==
  StrV(parseFilter((CHOOSE e \in QueryEntries : e.key = c.col).val).value)

\* C19: in every statement sent the placeholders are $1..$n, n the number
\* of parameters, each once and in the order of the parameters: the body
\* values (INSERT, UPDATE) and then the filter values, each condition
\* binding the value of its own filter.
C19_PlaceholdersMatchParameters ==
  \A i \in 1..Len(sent) :
    LET st == sent[i].stmt
        nset == Len(st.set)
        ncol == Len(st.cols)
    IN /\ Len(st.params) = ncol + nset + Len(st.where)
       /\ \A j \in 1..Len(st.where) :
            /\ st.where[j].ph = nset + j
            /\ st.params[nset + j] = BoundValue(st.where[j])
       /\ \A j \in 1..nset :
            /\ st.set[j].ph = j
            /\ st.set[j].col = req.body.items[1][j].col
            /\ st.params[j] = req.body.items[1][j].val
       /\ \A j \in 1..ncol :
            /\ st.cols[j] = req.body.items[i][j].col
            /\ st.params[j] = req.body.items[i][j].val

\* An UPDATE with one assignment and two conditions, accepted by the store.
C19_UpdateWithTwoFilters ==
  /\ req.method = "PATCH" /\ Len(sent) = 1 /\ sent[1].ok
  /\ Len(sent[1].stmt.set) = 1 /\ Len(sent[1].stmt.where) = 2
  /\ Len(sent[1].stmt.params) = 3

\* The relationship map of the contract.
ContractMap(table) ==
  CASE table = "products" ->
         {[name |-> s_categories, foreignKey |-> s_category_id, targetTable |-> "categories"],
          [name |-> s_suppliers, foreignKey |-> s_supplier_id, targetTable |-> "suppliers"]}
    [] table = "stock_movements" ->
         {[name |-> s_products, foreignKey |-> s_product_id, targetTable |-> "products"],
          [name |-> s_users, foreignKey |-> s_user_id, targetTable |-> "users"]}
    [] table = "audit_logs" ->
         {[name |-> s_users, foreignKey |-> s_user_id, targetTable |-> "users"]}
    [] OTHER -> {}

\* The relation requests and the plain columns the contract gives a list
\* of terms.
ExpectedRelation(table, t) ==
  [name |-> t.name, columns |-> t.columns,
   foreignKey |-> (CHOOSE r \in ContractMap(table) : r.name = t.name).foreignKey,
   targetTable |-> (CHOOSE r \in ContractMap(table) : r.name = t.name).targetTable]
ExpectedRelations(table, terms) ==
  LET rels == SelectSeq(terms, LAMBDA t : t.rel)
  IN [i \in 1..Len(rels) |-> ExpectedRelation(table, rels[i])] \o <<>>
ExpectedColumns(terms) ==
  LET cols == SelectSeq(terms, LAMBDA t : ~t.rel)
  IN [i \in 1..Len(cols) |-> cols[i].name] \o <<>>

\* C20: for a select expression of plain columns, * and relation tokens
\* of the table's relationship map, parseSupabaseSelect returns one
\* relation request per relation token, with the foreign key and the
\* target table of the map, and the other terms in order as plain columns.
C20_SelectParsed ==
  (call # NoCall /\ \A i \in 1..Len(call.terms) :
      call.terms[i].rel => \E r \in ContractMap(call.table) : r.name = call.terms[i].name)
    => /\ call.result.relations = ExpectedRelations(call.table, call.terms)
       /\ call.result.mainColumns = ExpectedColumns(call.terms)

\* A GET, on the table of the last POST, filtered by the id of the row
\* that POST answered, with nothing written since.
ReadsBackPosted ==
  /\ req.method = "GET" /\ posted # NoPost
  /\ req.table = posted.table
  /\ req.query = ById(posted.row[s_id].n)

AskedOfCategories ==
  IF \E e \in QueryEntries : e.key = s_select /\ e.val = s_star_categories
  THEN {s_id, s_name} ELSE {s_name}

\* The products the filters of the request keep.
Kept ==
  {r \in db["products"] :
     \A e \in QueryEntries :
        /\ e.key = s_category_id => r[s_category_id] = IntV(1)
        /\ e.key = s_current_stock => r[s_current_stock].n <= 1}

\* A GET of products that names the categories relation was answered rows.
RelationAnswered ==
  /\ req.method = "GET" /\ req.table = "products" /\ resp.status = 200
  /\ \E e \in QueryEntries : e.key = s_select /\ e.val \in RelationSelects

\* C14: a GET whose select names the relation categories(c1..cn) answers one
\* row per product the filters keep, and each row carries under "categories"
\* one object (not an array) whose keys are exactly c1..cn, holding the
\* values of the product's category, or null throughout when the product's
\* category_id matches no category.
C14_RelationIsOneObject ==
  RelationAnswered
    => /\ Len(resp.rows) = Cardinality(Kept)
       /\ {resp.rows[i][s_id] : i \in 1..Len(resp.rows)} = {r[s_id] : r \in Kept}
       /\ \A i \in 1..Len(resp.rows) :
            LET got == resp.rows[i][s_categories]
                base == CHOOSE r \in db["products"] : r[s_id] = resp.rows[i][s_id]
                cats == {c \in db["categories"] : c[s_id] = base[s_category_id]}
            IN /\ got.t = "json"
               /\ DOMAIN got.s = AskedOfCategories
               /\ \A k \in AskedOfCategories :
                    IF cats = {} THEN got.s[k] = NullV
                    ELSE \A c \in cats : got.s[k] = c[k]

\* Two products were answered, one with its category and one with nulls in
\* place of the category it does not have.
C14_MatchedAndUnmatched ==
  /\ RelationAnswered
  /\ Len(resp.rows) = 2
  /\ \E i, j \in 1..2 :
       /\ resp.rows[i][s_categories].s[s_name] = NullV
       /\ resp.rows[j][s_categories].s[s_name] # NullV

\* The login route was served.
LoginAnswered == req.method = "POST" /\ req.table = "auth/login"

\* The value the login request submits under a key, null when it has none.
Submitted(key) ==
  IF req.body = NoBody \/ ~\E i \in 1..Len(req.body.items[1]) : req.body.items[1][i].col = key
  THEN NullV
  ELSE req.body.items[1][CHOOSE i \in 1..Len(req.body.items[1]) :
                           req.body.items[1][i].col = key].val

\* The profiles with the submitted username, and those of them with the
\* submitted password too.
Namesakes == {r \in db["profiles"] : r[s_username] = Submitted(s_username)}
Matches == {r \in Namesakes : r[s_password_hash] = Submitted(s_password)}

\* C16: in every handler a database error raised by the statement is
\* answered 500 with a JSON body {error: <text>}; every request served has
\* one response, and no failure is answered without a JSON error body.
C16_FailuresAreJson ==
  Answered
    => /\ resp # NoResponse
       /\ (\E i \in 1..Len(sent) : ~sent[i].ok)
            => (resp.status = 500 /\ resp.kind = "error" /\ resp.error # "")
       /\ resp.status >= 400 => resp.kind = "error"

StockAnswered == req.method = "GET" /\ req.table = "products" /\ resp.status = 200

\* What a POST of a stock movement sends: one INSERT into stock_movements.
OnlyTheInsert ==
  (req.method = "POST" /\ req.table = "stock_movements")
    => /\ Len(sent) = 1
       /\ sent[1].stmt.kind = "INSERT" /\ sent[1].stmt.table = "stock_movements"

\* C18 as stated: after a POST of a stock movement has succeeded, a GET of
\* its product answers current_stock = the movement's new_stock as long as
\* no other movement of the product was inserted since; the POST sends
\* only the INSERT.
C18_StockFollowsMovement ==
  /\ OnlyTheInsert
  /\ StockAnswered
       => \A i \in 1..Len(resp.rows) :
            moved[resp.rows[i][s_id].n].new_stock # NullV
              => resp.rows[i][s_current_stock] = moved[resp.rows[i][s_id].n].new_stock

\* C18 amended: the same, as long as no other movement of the product was
\* inserted and the product row was not updated or deleted since.
C18_StockFollowsMovementUntouched ==
  /\ OnlyTheInsert
  /\ StockAnswered
       => \A i \in 1..Len(resp.rows) :
            (/\ moved[resp.rows[i][s_id].n].new_stock # NullV
             /\ ~moved[resp.rows[i][s_id].n].touched)
              => resp.rows[i][s_current_stock] = moved[resp.rows[i][s_id].n].new_stock

\* A product was read back with the stock its second movement gave it.
C18_ReadAfterSecondMovement ==
  /\ StockAnswered
  /\ Cardinality(db["stock_movements"]) = 2
  /\ \E i \in 1..Len(resp.rows) :
       /\ moved[resp.rows[i][s_id].n] = [new_stock |-> IntV(2), touched |-> FALSE]
       /\ resp.rows[i][s_current_stock] = IntV(2)
       /\ \A m \in db["stock_movements"] : m[s_product_id] = resp.rows[i][s_id]
       /\ \E m \in db["stock_movements"] : m[s_new_stock] = IntV(1)

\* The relation tokens of the call whose name is not a key of the
\* relationship map of the table.
UnmappedTokens ==
  {t \in {call.terms[i] : i \in 1..Len(call.terms)} :
     t.rel /\ t.name \notin {r.name : r \in relationships(call.table)}}

\* C21: a relation token whose name is not in the relationship map of the
\* table gives no relation request, and its text is left in the string the
\* plain columns are taken from, so it is among the plain columns returned.
C21_UnmappedTokenIsLeftover ==
  \A t \in UnmappedTokens :
     /\ \A j \in 1..Len(call.result.relations) : call.result.relations[j].name # t.name
     /\ \E j \in 1..Len(call.result.mainColumns) : call.result.mainColumns[j] = TermText(t)

\* C25: every UPDATE or DELETE the PATCH and DELETE handlers send has at
\* least one condition in its WHERE clause.
C25_WriteHasCondition ==
  req.method \in {"PATCH", "DELETE"}
    => \A i \in 1..Len(sent) : sent[i].stmt.where # <<>>

\* A terminal operation of the client has settled with the response in resp.
ClientSettled == Answered /\ client.kind = "settled"
QuerySettled == ClientSettled /\ req.method = "GET"

\* The chained calls of the query that add a filter.
FilterCalls ==
  {i \in 1..Len(client.chain) : client.chain[i].kind \in {"filter", "not"}}

\* C22: a terminal operation of the client helper settles with a non-null
\* error and null data when the server answered {error} with a non-2xx
\* status, and with a null error when the server answered rows.
C22_ResultOrError ==
  ClientSettled
    => /\ client.result.settled
       /\ (resp.kind = "error" /\ resp.status >= 300)
            => (~client.result.error.null /\ client.result.data = JsonNull)
       /\ resp.kind \in {"rows", "row"} => client.result.error.null

\* C23: the chained methods and insert(values) send nothing; the terminal
\* operation sends one request, which carries the table and the parameters
\* (or the values) accumulated when it was invoked.
C23_LazyExecution ==
  /\ client.kind \in {"builder", "insert"} => (client.fetches = 0 /\ req = NoRequest)
  /\ client.kind = "settled" => client.fetches = 1
  /\ QuerySettled
       => /\ req.table = client.table
          /\ \E e \in QueryEntries : e.key = s_select /\ e.val = s_star
          /\ \A e \in QueryEntries :
               e.key = s_select \/ \E i \in 1..Len(client.chain) :
                  \/ client.chain[i].kind \in {"filter", "not"} /\ client.chain[i].column = e.key
                  \/ client.chain[i].kind = "order" /\ e.key = s_order
                  \/ client.chain[i].kind = "limit" /\ e.key = s_limit
          /\ \A i \in 1..Len(client.chain) :
               (client.chain[i].kind = "filter"
                  /\ \A j \in (i + 1)..Len(client.chain) :
                        client.chain[j].kind \notin {"filter", "not"})
                 => \E e \in QueryEntries :
                       /\ e.key = client.chain[i].column
                       /\ HasPrefix(e.val, client.chain[i].op \o s_dot)
  /\ (ClientSettled /\ req.method = "POST") => req.body.items = <<client.values>>

\* A query was sent after as many chained calls as a builder takes here.
C23_SentAfterChain ==
  /\ QuerySettled /\ Len(client.chain) = MaxCalls
  /\ client.chain[1].kind = "filter" /\ client.chain[MaxCalls].kind = "order"
  /\ Len(req.query) = 3

\* C29: the request carries one filter per filter call made on the builder.
C29_EveryFilterSent ==
  QuerySettled
    => Cardinality({e \in QueryEntries : e.key \notin {s_select, s_order, s_count, s_limit}})
         = Cardinality(FilterCalls)

\* C30: a query with limit(n) settles without error with at most n rows,
\* and no condition on a column named limit is sent.
C30_LimitHonoured ==
  (QuerySettled /\ \E i \in 1..Len(client.chain) : client.chain[i].kind = "limit")
    => /\ client.result.error.null
       /\ Len(client.result.data.rows) <= 1
       /\ \A c \in Conditions : c.col # s_limit

\* Both items of a session are in localStorage, or neither is.
BothOrNeither == ("session" \in DOMAIN localStorage) <=> ("user" \in DOMAIN localStorage)

\* C28: 'session' and 'user' are in localStorage together or not at all;
\* a failed sign-in leaves localStorage as it was, a sign-out leaves
\* neither item, and getSession gives a session only when both are there.
C28_SessionAndUserTogether ==
  /\ [](/\ BothOrNeither
        /\ getSession(localStorage).session # <<>>
             => {"session", "user"} \subseteq DOMAIN localStorage
        /\ client.kind = "signout" => DOMAIN localStorage \cap {"session", "user"} = {})
  /\ [][(client'.kind = "signin" /\ client' # client /\ ~client'.result.error.null)
          => localStorage' = localStorage]_vars

\* Signed in through the server: both items are stored.
C28_SignedIn ==
  /\ client.kind = "signin" /\ client.result.error.null
  /\ req.table = "auth/login" /\ resp.status = 200
  /\ {"session", "user"} \subseteq DOMAIN localStorage

\* C24: the in-memory backend keeps the contract of PATCH and DELETE:
\* update(values).eq changes every row the filter matches and settles
\* without error, with nothing, when no row matches; delete().eq removes
\* exactly the rows the filter matches and gives them back.
C24_MockKeepsContract ==
  [][LET rows == mockData["products"]
         after == mockData'["products"]
         c == client'
     IN /\ c.kind = "update" =>
             /\ c.result.error.null
             /\ Len(after) = Len(rows)
             /\ \A i \in 1..Len(rows) :
                  IF RowIs(rows[i], c.params[1], c.params[2])
                  THEN \A k \in DOMAIN c.values[1] : after[i][k] = c.values[1][k]
                  ELSE after[i] = rows[i]
        /\ c.kind = "delete" =>
             /\ c.result.error.null
             /\ after = FilterRows(rows, c.params[1], c.params[2], FALSE, 1)
             /\ c.result.data.rows = FilterRows(rows, c.params[1], c.params[2], TRUE, 1)]_vars

\* C26: with entradas and saidas submitted from several forms, the
\* current_stock of a product is its initial stock (0) plus the entradas
\* less the saidas inserted, and the previous_stock of a movement is the
\* current_stock the product had immediately before the insert.
C26_StockIsSumOfMovements ==
  /\ \A r \in db["products"] :
       forms.net[r[s_id].n].plain => r[s_current_stock].n = forms.net[r[s_id].n].sum
  /\ (forms.last.outcome = "inserted" /\ forms.last.type \in {"entrada", "saida"})
       => forms.last.previous_stock = forms.last.before

\* C27: with only the forms writing, no movement has a negative new_stock
\* and no product a negative current_stock, and a saida of more than the
\* loaded stock is rejected with nothing inserted.
C27_StockNeverNegative ==
  /\ \A r \in db["products"] : r[s_current_stock].n >= 0
  /\ \A m \in db["stock_movements"] : m[s_new_stock].n >= 0
  /\ (forms.last.selected /\ forms.last.type = "saida"
        /\ forms.last.quantity > forms.last.loaded)
       => forms.last.outcome = "rejected" /\ ~forms.last.wrote

\* A saida of more than the loaded stock was refused, by a signed-in user,
\* on a product that an entrada had stocked.
C27_SaidaRefused ==
  /\ forms.last.outcome = "rejected" /\ forms.last.selected
  /\ forms.last.type = "saida" /\ forms.last.quantity > forms.last.loaded
  /\ SessionUser(localStorage) # Undefined
  /\ forms.last.loaded >= 1
  /\ \E m \in db["stock_movements"] : m[s_new_stock].n = forms.last.loaded

====
